---- MODULE Spec2Model ----
(***************************************************************************)
(* Timeline construction of the solar system catalog loader                *)
(* (src/src/celengine/solarsys.cpp).                                       *)
(*                                                                         *)
(* The catalog is a sequence of object definitions; LoadSolarSystemObjects *)
(* handles them one after the other.  Each definition builds (or modifies) *)
(* a body and gives it a timeline: either from an explicit Timeline array  *)
(* (CreateTimelineFromArray / CreateTimelinePhase) or, the legacy way,     *)
(* from the top-level OrbitFrame, BodyFrame, orbit, rotation, Beginning    *)
(* and Ending fields (CreateTimeline).                                     *)
(***************************************************************************)
EXTENDS Integers, Sequences, FiniteSets, TLC

VARIABLES
    catalog,    \* the object definitions of the input stream, in order
    pos,        \* index of the next definition to handle
    bodies,     \* body object -> its state (status, name, system, timeline)
    planets,    \* planetary system (by owner) -> sequence of its bodies
    last,       \* what handling the latest definition did
    returned,   \* LoadSolarSystemObjects has returned (true)
    stars,      \* planetary system (by owner) -> the star it belongs to
    measured,   \* the latest nesting depth asked of a frame, and the answer
    solarSystems \* the stars that have a solar system in the universe

vars == <<catalog, pos, bodies, planets, last, returned, stars, measured, solarSystems>>

(***************************************************************************)
(* Bounds of the model.                                                    *)
(***************************************************************************)
MaxPhases == 2
MaxTime == 2
MaxBodies == 3
\* the longest chain of frames, and a small maxDepth, of the depth measurements
MaxChain == 52
\* a cycle of frames leads back to one of the first MaxTail bodies of the
\* chain, or to its last body
MaxTail == 3
SmallDepth == 3

(***************************************************************************)
(* Program constants and basic values.                                     *)
(***************************************************************************)
\* static unsigned int MaxFrameDepth = 50;
MaxFrameDepth == 50

\* numeric_limits<double>::infinity(): larger than every date of a catalog
Infinity == MaxTime + 1
NegInfinity == 0 - Infinity

\* Selections: the star, a body (its object id, 1..MaxBodies), or empty.
StarSel == 0
EmptySel == 0 - 1
\* A second star, of another star system; Star* NULL selects nothing
OtherStar == 0 - 2
NullStar == EmptySel
\* Selection::star() != NULL
IsStar(sel) == sel \in {StarSel, OtherStar}
\* Body* NULL
NullBody == 0

BodyIds == 1 .. MaxBodies
StarName == "Sol"
BodyNames == {"a", "b"}

Dispositions == {"AddObject", "ReplaceObject", "ModifyObject"}

\* ReferenceFrame*, Orbit*, RotationModel* : objects, with a null value each
NullFrame == [kind |-> "null", center |-> EmptySel]
NullOrbit == [kind |-> "null", period |-> 0, planetUnits |-> FALSE]
NullRotation == [kind |-> "null", period |-> 0]

(***************************************************************************)
(* Values of the fields of a definition (Hash accessors).                  *)
(***************************************************************************)
DateAbsent == [tag |-> "absent", jd |-> 0]
DateInvalid == [tag |-> "invalid", jd |-> 0]
Date(t) == [tag |-> "date", jd |-> t]
DateVals == {DateAbsent, DateInvalid} \cup {Date(t) : t \in 1 .. MaxTime}

FrameAbsent == [tag |-> "absent", center |-> ""]
FrameBad == [tag |-> "bad", center |-> ""]
FrameOn(c) == [tag |-> "frame", center |-> c]

OrbitAbsent == [tag |-> "absent", period |-> 0]
OrbitOf(p) == [tag |-> "orbit", period |-> p]

RotationAbsent == [tag |-> "absent"]
RotationGiven == [tag |-> "given"]
\* rotation fields from which no rotation model can be made
RotationBad == [tag |-> "bad"]

\* Hash::getNumber("Radius", radius) and Hash::getString("Class", name)
NumberAbsent == [tag |-> "absent", value |-> 0]
Number(n) == [tag |-> "number", value |-> n]
StringAbsent == [tag |-> "absent", value |-> ""]
String(str) == [tag |-> "string", value |-> str]

TimelineAbsent == [tag |-> "absent", phases |-> <<>>]
TimelineNotArray == [tag |-> "notarray", phases |-> <<>>]
TimelineArray(ps) == [tag |-> "array", phases |-> ps]

\* bool ParseDate(Hash*, name, double& jd): true and jd set when the field is
\* present and a valid date; otherwise false and jd left as it was.
ParseDate(v, jd) ==
    IF v.tag = "date" THEN [ok |-> TRUE, jd |-> v.jd] ELSE [ok |-> FALSE, jd |-> jd]

(***************************************************************************)
(* The universe: name lookup and the frames of a body.                     *)
(***************************************************************************)
\* The ids of a sequence of bodies
Range(s) == {s[i] : i \in 1 .. Len(s)}

\* Body* PlanetarySystem::find(name): the first body of the system with that
\* name, NULL when there is none.
Find(B, sys, nm) ==
    LET hits == {i \in 1 .. Len(sys) : B[sys[i]].name = nm}
    IN  IF hits = {} THEN NullBody
        ELSE sys[CHOOSE i \in hits : \A j \in hits : i <= j]

\* Selection Universe::findPath(name): the star, or a body that is in a
\* planetary system, or the empty selection.
FindPath(B, P, nm) ==
    IF nm = StarName THEN StarSel
    ELSE LET hits == {b \in BodyIds : /\ B[b].status = "live"
                                      /\ B[b].name = nm
                                      /\ \E o \in DOMAIN P :
                                            /\ IsStar(o) \/ B[o].status = "live"
                                            /\ b \in Range(P[o])}
         IN  IF hits = {} THEN EmptySel
             ELSE CHOOSE b \in hits : \A c \in hits : b <= c

\* ReferenceFrame* CreateReferenceFrame(universe, value): a new frame on the
\* center the value names, NULL when the value is malformed or its center
\* does not resolve.
CreateReferenceFrame(B, P, v) ==
    IF v.tag # "frame" THEN NullFrame
    ELSE LET c == FindPath(B, P, v.center)
         IN  IF c = EmptySel THEN NullFrame
             ELSE [kind |-> "created", center |-> c]

\* FrameTree::getDefaultReferenceFrame(): the frame centered on the owner of
\* the frame tree.
DefaultReferenceFrame(owner) == [kind |-> "default", center |-> owner]

\* Timeline::findPhase(t): the phase covering t; the first (last) phase for
\* a t before (after) the timeline.
FindPhase(tl, t) ==
    LET covering == {i \in 1 .. Len(tl) : t < tl[i].end}
    IN  IF covering = {} THEN tl[Len(tl)]
        ELSE tl[CHOOSE i \in covering : \A j \in covering : i <= j]

\* Body::getOrbitFrame(t) / Body::getBodyFrame(t)
GetFrame(B, b, frameType, t) ==
    IF frameType = "PositionFrame" THEN FindPhase(B[b].timeline, t).orbitFrame
    ELSE FindPhase(B[b].timeline, t).bodyFrame

\* ReferenceFrame::nestingDepth(depth, maxDepth, frameType) on the frame of
\* center sel: the number of frames met following the frames of the centers,
\* cut off as soon as it exceeds maxDepth.
RECURSIVE GetFrameDepth(_, _, _, _, _)
GetFrameDepth(B, sel, depth, maxDepth, frameType) ==
    IF depth > maxDepth THEN depth
    ELSE IF sel \notin DOMAIN B THEN depth
    ELSE IF B[sel].timeline = <<>> THEN depth
    ELSE GetFrameDepth(B, GetFrame(B, sel, frameType, 0).center,
                       depth + 1, maxDepth, frameType)

NestingDepth(B, frame, maxDepth, frameType) ==
    GetFrameDepth(B, frame.center, 0, maxDepth, frameType)

\* Faulty variant: a frame at the maximum depth counts as circular
isFrameCircularAtBound(B, frame, frameType) ==
    NestingDepth(B, frame, MaxFrameDepth, frameType) >= MaxFrameDepth

\* static bool isFrameCircular(frame, frameType)
isFrameCircular(B, frame, frameType) ==
    NestingDepth(B, frame, MaxFrameDepth, frameType) > MaxFrameDepth

(***************************************************************************)
(* Orbits and rotation models.                                             *)
(***************************************************************************)
\* Orbit* CreateOrbit(system, data, path, usePlanetUnits)
CreateOrbit(v, usePlanetUnits) ==
    IF v.tag = "orbit"
    THEN [kind |-> "orbit", period |-> v.period, planetUnits |-> usePlanetUnits]
    ELSE NullOrbit

\* RotationModel* CreateRotationModel(data, path, syncRotationPeriod)
CreateRotationModel(v, syncRotationPeriod) ==
    IF v.tag = "given" THEN [kind |-> "custom", period |-> syncRotationPeriod]
    ELSE NullRotation

\* RotationModel* CreateDefaultRotationModel(syncRotationPeriod)
CreateDefaultRotationModel(syncRotationPeriod) ==
    [kind |-> "sync", period |-> syncRotationPeriod]

\* new ConstantOrientation(Quatd(1.0))
ConstantOrientation == [kind |-> "constant", period |-> 0]

\* TimelinePhase::CreateTimelinePhase(universe, body, beginning, ending,
\*                                    orbitFrame, orbit, bodyFrame, rotationModel)
NewTimelinePhase(beginning, ending, orbitFrame, orbit, bodyFrame, rotationModel) ==
    [start |-> beginning, end |-> ending,
     orbitFrame |-> orbitFrame, bodyFrame |-> bodyFrame,
     orbit |-> orbit, rotationModel |-> rotationModel]

(***************************************************************************)
(* Building timelines.                                                     *)
(***************************************************************************)
\* PlanetarySystem::getStar() and getPrimaryBody(); a planetary system is
\* named by its owner: the star, or the body whose satellites it holds.
SystemStar(system) == stars[system]
PrimaryBody(system) == IF system \in BodyIds THEN system ELSE NullBody

\* GetOrbitBarycenter: "The barycenter must be in the same star system as
\* the object we're creating"
CheckBarycenter(B, system, orbitBarycenter) ==
    IF orbitBarycenter \in BodyIds
    THEN IF SystemStar(system) # SystemStar(B[orbitBarycenter].system)
         THEN EmptySel ELSE orbitBarycenter
    ELSE IF IsStar(orbitBarycenter)
    THEN IF SystemStar(system) # orbitBarycenter
         THEN EmptySel ELSE orbitBarycenter
    ELSE orbitBarycenter

\* Faulty variant: the star of the system is preferred to its primary body
GetOrbitBarycenterStarFirst(B, system) ==
    CheckBarycenter(B, system,
                    IF SystemStar(system) # NullStar THEN SystemStar(system)
                    ELSE PrimaryBody(system))

\* static Selection GetOrbitBarycenter(name, system)
GetOrbitBarycenter(B, system) ==
    CheckBarycenter(B, system,
                    IF PrimaryBody(system) # NullBody THEN PrimaryBody(system)
                    ELSE SystemStar(system))

\* CreateTimelinePhase, "Get the rotation model": a phase without a rotation
\* model of its own gets a constant orientation.
PhaseRotationModel(rotationModel) ==
    IF rotationModel = NullRotation THEN ConstantOrientation ELSE rotationModel

\* Faulty variant: a phase without a rotation model of its own gets the
\* default model of the period of its orbit
PhaseWithOrbitSynchronous(phaseData, beginning, ending, orbitFrame, bodyFrame, orbit) ==
    IF orbit = NullOrbit THEN <<>>
    ELSE <<NewTimelinePhase(beginning, ending, orbitFrame, orbit, bodyFrame,
              IF CreateRotationModel(phaseData.Rotation, orbit.period) = NullRotation
              THEN CreateDefaultRotationModel(orbit.period)
              ELSE CreateRotationModel(phaseData.Rotation, orbit.period))>>

\* CreateTimelinePhase, "Get the orbit" and what follows
PhaseWithOrbit(phaseData, beginning, ending, orbitFrame, bodyFrame, orbit) ==
    IF orbit = NullOrbit THEN <<>>
    ELSE <<NewTimelinePhase(beginning, ending, orbitFrame, orbit, bodyFrame,
              PhaseRotationModel(CreateRotationModel(phaseData.Rotation, orbit.period)))>>

\* Faulty variant: a phase that names no frame gets the default frame of
\* the frame tree of the star
PhaseFrameOfStar(B, P, frameValue, defaultFrame) ==
    IF frameValue.tag # "absent" THEN CreateReferenceFrame(B, P, frameValue)
    ELSE DefaultReferenceFrame(StarSel)

\* CreateTimelinePhase, "Get the orbit reference frame" / "Get the body
\* reference frame": the frame the phase names, or the default frame.
PhaseFrame(B, P, frameValue, defaultFrame) ==
    IF frameValue.tag # "absent" THEN CreateReferenceFrame(B, P, frameValue)
    ELSE defaultFrame

\* Faulty variants: the check of Beginning, or of Ending, is missing
PhaseWithDatesAnyBeginning(phaseData, isFirstPhase, isLastPhase, begin, endd, orbitFrame, bodyFrame) ==
    IF ~isLastPhase /\ ~endd.ok THEN <<>>
    ELSE IF orbitFrame = NullFrame THEN <<>>
    ELSE IF bodyFrame = NullFrame THEN <<>>
    ELSE PhaseWithOrbit(phaseData, begin.jd, endd.jd, orbitFrame, bodyFrame,
                        CreateOrbit(phaseData.Orbit, IsStar(orbitFrame.center)))

PhaseWithDatesAnyEnding(phaseData, isFirstPhase, isLastPhase, begin, endd, orbitFrame, bodyFrame) ==
    IF ~isFirstPhase /\ begin.ok THEN <<>>
    ELSE IF orbitFrame = NullFrame THEN <<>>
    ELSE IF bodyFrame = NullFrame THEN <<>>
    ELSE PhaseWithOrbit(phaseData, begin.jd, endd.jd, orbitFrame, bodyFrame,
                        CreateOrbit(phaseData.Orbit, IsStar(orbitFrame.center)))

\* CreateTimelinePhase after the two ParseDate calls: the checks of
\* Beginning and Ending, then the frames
PhaseWithDates(phaseData, isFirstPhase, isLastPhase, begin, endd, orbitFrame, bodyFrame) ==
    IF ~isFirstPhase /\ begin.ok THEN <<>>
    ELSE IF ~isLastPhase /\ ~endd.ok THEN <<>>
    ELSE IF orbitFrame = NullFrame THEN <<>>
    ELSE IF bodyFrame = NullFrame THEN <<>>
    ELSE PhaseWithOrbit(phaseData, begin.jd, endd.jd, orbitFrame, bodyFrame,
                        CreateOrbit(phaseData.Orbit, IsStar(orbitFrame.center)))

\* Faulty variant: ending starts as the end of the previous phase instead of infinity
CreateTimelinePhaseEndingFromPrevious(B, P, phaseData, defaultFrame, isFirstPhase, isLastPhase, previousPhaseEnd) ==
    PhaseWithDates(phaseData, isFirstPhase, isLastPhase,
                   ParseDate(phaseData.Beginning, previousPhaseEnd),
                   ParseDate(phaseData.Ending, previousPhaseEnd),
                   PhaseFrame(B, P, phaseData.OrbitFrame, defaultFrame),
                   PhaseFrame(B, P, phaseData.BodyFrame, defaultFrame))

\* TimelinePhase* CreateTimelinePhase(body, universe, phaseData, path,
\*     defaultFrame, isFirstPhase, isLastPhase, previousPhaseEnd)
\* The result is <<>> for NULL and <<phase>> otherwise.
CreateTimelinePhase(B, P, phaseData, defaultFrame, isFirstPhase, isLastPhase, previousPhaseEnd) ==
    PhaseWithDates(phaseData, isFirstPhase, isLastPhase,
                   ParseDate(phaseData.Beginning, previousPhaseEnd),
                   ParseDate(phaseData.Ending, Infinity),
                   PhaseFrame(B, P, phaseData.OrbitFrame, defaultFrame),
                   PhaseFrame(B, P, phaseData.BodyFrame, defaultFrame))

\* The references to frames that CreateTimelinePhase has taken (a frame
\* made by CreateReferenceFrame, or addRef on the default frame) and not
\* released when it returns: each return of the function with the release
\* calls that precede it.
PhaseFramesHeld(phaseData, isFirstPhase, isLastPhase, begin, endd, orbitFrame, bodyFrame) ==
    IF ~isFirstPhase /\ begin.ok THEN 0
    ELSE IF ~isLastPhase /\ ~endd.ok THEN 0
    ELSE IF orbitFrame = NullFrame THEN 0
    ELSE IF bodyFrame = NullFrame THEN 1 - 1
    ELSE IF CreateOrbit(phaseData.Orbit, IsStar(orbitFrame.center)) = NullOrbit THEN 2 - 2
    ELSE 2

CreateTimelinePhaseFramesHeld(B, P, phaseData, defaultFrame, isFirstPhase, isLastPhase, previousPhaseEnd) ==
    PhaseFramesHeld(phaseData, isFirstPhase, isLastPhase,
                    ParseDate(phaseData.Beginning, previousPhaseEnd),
                    ParseDate(phaseData.Ending, Infinity),
                    PhaseFrame(B, P, phaseData.OrbitFrame, defaultFrame),
                    PhaseFrame(B, P, phaseData.BodyFrame, defaultFrame))

\* The outcome of CreateTimelineFromArray: [ok |-> FALSE] is the NULL
\* return; framesHeld counts the references to frames taken and not released
ArrayResult(ok, timeline, framesHeld) ==
    [ok |-> ok, timeline |-> timeline, framesHeld |-> framesHeld]

\* The references held by the phases built before are still held
HoldMore(made, held) == [made EXCEPT !.framesHeld = @ + held]

\* One turn of the loop of CreateTimelineFromArray once the phase is built
RECURSIVE TimelineFromArrayLoop(_, _, _, _, _, _, _)
\* Faulty variant: previousEnding is taken from the start of the phase
AppendPhaseFromStart(B, P, timelineArray, defaultFrame, i, timeline, phase, held) ==
    IF phase = <<>> THEN ArrayResult(FALSE, <<>>, held)
    ELSE HoldMore(TimelineFromArrayLoop(B, P, timelineArray, defaultFrame, i + 1,
                                        Append(timeline, phase[1]), phase[1].start), held)

\* Faulty variant: a phase that fails ends the timeline, which is returned
AppendPhaseKeepBuilt(B, P, timelineArray, defaultFrame, i, timeline, phase, held) ==
    IF phase = <<>> THEN ArrayResult(TRUE, timeline, held)
    ELSE HoldMore(TimelineFromArrayLoop(B, P, timelineArray, defaultFrame, i + 1,
                                        Append(timeline, phase[1]), phase[1].end), held)

AppendPhase(B, P, timelineArray, defaultFrame, i, timeline, phase, held) ==
    IF phase = <<>> THEN ArrayResult(FALSE, <<>>, held)
    ELSE HoldMore(TimelineFromArrayLoop(B, P, timelineArray, defaultFrame, i + 1,
                                        Append(timeline, phase[1]), phase[1].end), held)

\* The loop of CreateTimelineFromArray from element i on, the phases built so
\* far in timeline: [ok |-> FALSE] is the NULL return.
TimelineFromArrayLoop(B, P, timelineArray, defaultFrame, i, timeline, previousEnding) ==
    IF i > Len(timelineArray) THEN ArrayResult(TRUE, timeline, 0)
    ELSE IF ~timelineArray[i].isHash THEN ArrayResult(FALSE, <<>>, 0)
    ELSE AppendPhase(B, P, timelineArray, defaultFrame, i, timeline,
                     CreateTimelinePhase(B, P, timelineArray[i], defaultFrame,
                                         i = 1, i = Len(timelineArray), previousEnding),
                     CreateTimelinePhaseFramesHeld(B, P, timelineArray[i], defaultFrame,
                                         i = 1, i = Len(timelineArray), previousEnding))

\* Timeline* CreateTimelineFromArray(body, universe, timelineArray, path, defaultFrame)
CreateTimelineFromArray(B, P, timelineArray, defaultFrame) ==
    TimelineFromArrayLoop(B, P, timelineArray, defaultFrame, 1, <<>>, NegInfinity)

\* Body::setTimeline(timeline)
SetTimeline(B, body, timeline) == [B EXCEPT ![body].timeline = timeline]

\* The outcome of CreateTimeline: its return value (ok), whether it called
\* setTimeline (installed) and with which timeline, its flags, the
\* references to frames it has taken and not released (framesHeld), the
\* owner of the frame tree it has fetched (parentFrameTree), and the frame
\* types for which it has called isFrameCircular (checked).
TimelineResult(ok, installed, timeline, path, override, newOrbitFrame, newBodyFrame, framesHeld, parentFrameTree) ==
    [ok |-> ok, installed |-> installed, timeline |-> timeline, path |-> path,
     overrideOldTimeline |-> override,
     newOrbitFrame |-> newOrbitFrame, newBodyFrame |-> newBodyFrame,
     framesHeld |-> framesHeld, parentFrameTree |-> parentFrameTree,
     checked |-> {}]

\* The local variables of CreateTimeline on the legacy path
Locals(orbitFrame, bodyFrame, orbit, rotationModel, beginning, ending) ==
    [orbitFrame |-> orbitFrame, bodyFrame |-> bodyFrame, orbit |-> orbit,
     rotationModel |-> rotationModel, beginning |-> beginning, ending |-> ending,
     overrideOldTimeline |-> FALSE, newOrbitFrame |-> FALSE, newBodyFrame |-> FALSE,
     noOrbit |-> FALSE]

\* Faulty variant: a timeline of several phases hands down its first phase
InheritPhaseOfAnyTimeline(timeline, disposition) ==
    IF disposition = "ModifyObject" /\ Len(timeline) >= 1
    THEN Locals(timeline[1].orbitFrame, timeline[1].bodyFrame, timeline[1].orbit,
                timeline[1].rotationModel, timeline[1].start, timeline[1].end)
    ELSE Locals(NullFrame, NullFrame, NullOrbit, NullRotation, NegInfinity, Infinity)

\* Faulty variant: the time range of the old phase is not taken over
InheritPhaseWithoutRange(timeline, disposition) ==
    IF disposition = "ModifyObject" /\ Len(timeline) = 1
    THEN Locals(timeline[1].orbitFrame, timeline[1].bodyFrame, timeline[1].orbit,
                timeline[1].rotationModel, NegInfinity, Infinity)
    ELSE Locals(NullFrame, NullFrame, NullOrbit, NullRotation, NegInfinity, Infinity)

\* "Information required for the object timeline", and what a Modify of a
\* one-phase timeline takes from that phase
InheritPhase(timeline, disposition) ==
    IF disposition = "ModifyObject" /\ Len(timeline) = 1
    THEN Locals(timeline[1].orbitFrame, timeline[1].bodyFrame, timeline[1].orbit,
                timeline[1].rotationModel, timeline[1].start, timeline[1].end)
    ELSE Locals(NullFrame, NullFrame, NullOrbit, NullRotation, NegInfinity, Infinity)

\* "Get the object's orbit reference frame."
LegacyOrbitFrame(l, frame) ==
    IF frame # NullFrame
    THEN [l EXCEPT !.orbitFrame = frame, !.newOrbitFrame = TRUE,
                   !.overrideOldTimeline = TRUE]
    ELSE l

\* "Get the object's body frame."
LegacyBodyFrame(l, frame) ==
    IF frame # NullFrame
    THEN [l EXCEPT !.bodyFrame = frame, !.newBodyFrame = TRUE,
                   !.overrideOldTimeline = TRUE]
    ELSE l

\* Faulty variant: a missing body frame is taken from the orbit frame
LegacyDefaultFramesFromOrbitFrame(l, defaultFrame) ==
    [l EXCEPT !.orbitFrame = IF @ = NullFrame THEN defaultFrame ELSE @,
              !.bodyFrame = IF @ = NullFrame
                            THEN (IF l.orbitFrame = NullFrame THEN defaultFrame
                                  ELSE l.orbitFrame)
                            ELSE @]

\* "If no orbit or body frame was specified, use the default ones"
LegacyDefaultFrames(l, defaultFrame) ==
    [l EXCEPT !.orbitFrame = IF @ = NullFrame THEN defaultFrame ELSE @,
              !.bodyFrame = IF @ = NullFrame THEN defaultFrame ELSE @]

\* The new orbit, if any, overrides the old one; no orbit at all is the
\* failure "No valid orbit specified"
LegacyNewOrbit(l, newOrbit) ==
    IF newOrbit = NullOrbit /\ l.orbit = NullOrbit THEN [l EXCEPT !.noOrbit = TRUE]
    ELSE IF newOrbit # NullOrbit
    THEN [l EXCEPT !.orbit = newOrbit, !.overrideOldTimeline = TRUE]
    ELSE l

\* Faulty variant: the units follow the center of the body frame
LegacyOrbitUnitsOfBodyFrame(l, orbitValue) ==
    LegacyNewOrbit(l, CreateOrbit(orbitValue, IsStar(l.bodyFrame.center)))

\* Planet units (AU) when the center of the orbit frame is a star
LegacyOrbit(l, orbitValue) ==
    LegacyNewOrbit(l, CreateOrbit(orbitValue, IsStar(l.orbitFrame.center)))

\* Faulty variant: a new rotation model does not set overrideOldTimeline
LegacyNewRotationUnrecorded(l, newRotationModel) ==
    IF newRotationModel # NullRotation
    THEN [l EXCEPT !.rotationModel = newRotationModel]
    ELSE IF l.rotationModel = NullRotation
    THEN [l EXCEPT !.rotationModel = CreateDefaultRotationModel(l.orbit.period)]
    ELSE l

\* A new rotation model overrides the old one; with neither, the default one
LegacyNewRotation(l, newRotationModel) ==
    IF newRotationModel # NullRotation
    THEN [l EXCEPT !.rotationModel = newRotationModel, !.overrideOldTimeline = TRUE]
    ELSE IF l.rotationModel = NullRotation
    THEN [l EXCEPT !.rotationModel = CreateDefaultRotationModel(l.orbit.period)]
    ELSE l

\* "Get the rotation model for this body"
LegacyRotation(l, rotationValue) ==
    IF l.noOrbit THEN l
    ELSE LegacyNewRotation(l, CreateRotationModel(rotationValue, l.orbit.period))

\* if (ParseDate(planetData, "Beginning", beginning) ||
\*     ParseDate(planetData, "Ending", ending)) overrideOldTimeline = true;
\* the second call is made only when the first returns false
LegacyParsedDates(l, begin, endd) ==
    IF begin.ok
    THEN [l EXCEPT !.beginning = begin.jd, !.overrideOldTimeline = TRUE]
    ELSE IF endd.ok
    THEN [l EXCEPT !.ending = endd.jd, !.overrideOldTimeline = TRUE]
    ELSE l

LegacyDates(l, beginningValue, endingValue) ==
    IF l.noOrbit THEN l
    ELSE LegacyParsedDates(l, ParseDate(beginningValue, l.beginning),
                              ParseDate(endingValue, l.ending))

\* The timeline of the one phase made of the local variables
LegacyTimeline(l) ==
    <<NewTimelinePhase(l.beginning, l.ending, l.orbitFrame, l.orbit,
                       l.bodyFrame, l.rotationModel)>>

\* Faulty variant: both frames of the new timeline are checked, new or not
LegacyCircularAnyFrame(B2, body, l) ==
    \/ isFrameCircular(B2, GetFrame(B2, body, "PositionFrame", 0), "PositionFrame")
    \/ isFrameCircular(B2, GetFrame(B2, body, "OrientationFrame", 0), "OrientationFrame")

\* The checks for circular frames, made on the body with its new timeline set
LegacyCircular(B2, body, l) ==
    \/ /\ l.newOrbitFrame
       /\ isFrameCircular(B2, GetFrame(B2, body, "PositionFrame", 0), "PositionFrame")
    \/ /\ l.newBodyFrame
       /\ isFrameCircular(B2, GetFrame(B2, body, "OrientationFrame", 0), "OrientationFrame")

\* The frame types isFrameCircular is called for: the second check is not
\* reached when the first one returns false from CreateTimeline
LegacyChecks(B2, body, l) ==
    IF l.newOrbitFrame
    THEN IF isFrameCircular(B2, GetFrame(B2, body, "PositionFrame", 0), "PositionFrame")
         THEN {"PositionFrame"}
         ELSE IF l.newBodyFrame THEN {"PositionFrame", "OrientationFrame"}
         ELSE {"PositionFrame"}
    ELSE IF l.newBodyFrame THEN {"OrientationFrame"}
    ELSE {}

\* The frames CreateReferenceFrame has made for the top-level OrbitFrame and
\* BodyFrame; CreateTimeline has no release call for them.
LegacyFramesHeld(l) ==
    (IF l.newOrbitFrame THEN 1 ELSE 0) + (IF l.newBodyFrame THEN 1 ELSE 0) - 0

\* "if (overrideOldTimeline)": the timeline is created and set, and then
\* checked for circular frames
LegacyInstall(B, body, l, parentFrameTree) ==
    IF l.noOrbit
    THEN TimelineResult(FALSE, FALSE, <<>>, "noorbit", l.overrideOldTimeline,
                        l.newOrbitFrame, l.newBodyFrame,
                        LegacyFramesHeld(l), parentFrameTree)
    ELSE IF ~l.overrideOldTimeline
    THEN TimelineResult(TRUE, FALSE, <<>>, "legacy", l.overrideOldTimeline,
                        l.newOrbitFrame, l.newBodyFrame,
                        LegacyFramesHeld(l), parentFrameTree)
    ELSE [TimelineResult(~LegacyCircular(SetTimeline(B, body, LegacyTimeline(l)), body, l),
                         TRUE, LegacyTimeline(l), "legacy", l.overrideOldTimeline,
                         l.newOrbitFrame, l.newBodyFrame,
                         LegacyFramesHeld(l), parentFrameTree)
            EXCEPT !.checked = LegacyChecks(SetTimeline(B, body, LegacyTimeline(l)), body, l)]

\* CreateTimeline from the line "Information required for the object
\* timeline" on: the definition has no Timeline field.
CreateLegacyTimeline(B, P, body, planetData, disposition, parentFrameTree) ==
    LegacyInstall(B, body,
      LegacyDates(
        LegacyRotation(
          LegacyOrbit(
            LegacyDefaultFrames(
              LegacyBodyFrame(
                LegacyOrbitFrame(
                  InheritPhase(B[body].timeline, disposition),
                  CreateReferenceFrame(B, P, planetData.OrbitFrame)),
                CreateReferenceFrame(B, P, planetData.BodyFrame)),
              DefaultReferenceFrame(parentFrameTree)),
            planetData.Orbit),
          planetData.Rotation),
        planetData.Beginning, planetData.Ending),
      parentFrameTree)

\* static bool CreateTimeline(body, name, system, universe, planetData, path,
\*                            disposition)
ArrayTimeline(made, parentFrameTree) ==
    IF ~made.ok
    THEN TimelineResult(FALSE, FALSE, <<>>, "array", FALSE, FALSE, FALSE,
                        made.framesHeld, parentFrameTree)
    ELSE TimelineResult(TRUE, TRUE, made.timeline, "array", FALSE, FALSE, FALSE,
                        made.framesHeld, parentFrameTree)

\* Faulty variant: a definition with an orbit of its own is handled the
\* legacy way, its Timeline field ignored
TimelineAroundOrbitFirst(B, P, body, planetData, disposition, orbitBarycenter) ==
    IF orbitBarycenter = EmptySel
    THEN TimelineResult(FALSE, FALSE, <<>>, "nobarycenter", FALSE, FALSE, FALSE,
                        0, EmptySel)
    ELSE IF planetData.Orbit.tag = "orbit"
    THEN CreateLegacyTimeline(B, P, body, planetData, disposition, orbitBarycenter)
    ELSE IF planetData.Timeline.tag = "notarray"
    THEN TimelineResult(FALSE, FALSE, <<>>, "notarray", FALSE, FALSE, FALSE,
                        0, orbitBarycenter)
    ELSE IF planetData.Timeline.tag = "array"
    THEN ArrayTimeline(CreateTimelineFromArray(B, P, planetData.Timeline.phases,
                                               DefaultReferenceFrame(orbitBarycenter)),
                       orbitBarycenter)
    ELSE CreateLegacyTimeline(B, P, body, planetData, disposition, orbitBarycenter)

TimelineAround(B, P, body, planetData, disposition, orbitBarycenter) ==
    IF orbitBarycenter = EmptySel
    THEN TimelineResult(FALSE, FALSE, <<>>, "nobarycenter", FALSE, FALSE, FALSE,
                        0, EmptySel)
    ELSE IF planetData.Timeline.tag = "notarray"
    THEN TimelineResult(FALSE, FALSE, <<>>, "notarray", FALSE, FALSE, FALSE,
                        0, orbitBarycenter)
    ELSE IF planetData.Timeline.tag = "array"
    THEN ArrayTimeline(CreateTimelineFromArray(B, P, planetData.Timeline.phases,
                                               DefaultReferenceFrame(orbitBarycenter)),
                       orbitBarycenter)
    ELSE CreateLegacyTimeline(B, P, body, planetData, disposition, orbitBarycenter)

CreateTimeline(B, P, body, system, planetData, disposition) ==
    TimelineAround(B, P, body, planetData, disposition, GetOrbitBarycenter(B, system))

\* The assertion of CreateTimeline,
\*   assert(disposition == ModifyObject || overrideOldTimeline),
\* which an execution reaches when it is on the legacy path and has an orbit.
AssertionReached(r) == r.path = "legacy"
AssertionHolds(r, disposition) == disposition = "ModifyObject" \/ r.overrideOldTimeline

(***************************************************************************)
(* Handling one object definition.                                         *)
(***************************************************************************)
\* A body object that is not allocated
FreeBody ==
    [status |-> "free", name |-> "", system |-> EmptySel, timeline |-> <<>>,
     frameTree |-> FALSE, semiAxes |-> 0, classification |-> "",
     visible |-> FALSE, visibleAsPoint |-> FALSE, clickable |-> FALSE]

\* new Body(system).  The model gives a new body an empty timeline (no
\* phase), no frame tree, unit semi-axes, the classification Unknown, and
\* makes it visible and clickable; the constructor of Body is not part of
\* the sources at hand.
NewBody(system) ==
    [status |-> "live", name |-> "", system |-> system, timeline |-> <<>>,
     frameTree |-> FALSE, semiAxes |-> 1, classification |-> "Unknown",
     visible |-> TRUE, visibleAsPoint |-> TRUE, clickable |-> TRUE]

\* The object new returns: the model takes the lowest free one.
Allocate(B) ==
    LET free == {b \in BodyIds : B[b].status = "free"}
    IN  IF free = {} THEN NullBody ELSE CHOOSE b \in free : \A c \in free : b <= c

\* PlanetarySystem::replaceBody(oldBody, newBody): newBody takes oldBody's place
ReplaceBody(sys, oldBody, newBody) ==
    [i \in 1 .. Len(sys) |-> IF sys[i] = oldBody THEN newBody ELSE sys[i]]

\* PlanetarySystem::addBody(body)
AddBody(sys, body) == Append(sys, body)

\* delete body.  The object keeps its last contents in the model: a frame
\* that is still centered on it reads them.
DeleteBody(B, body) ==
    IF body = NullBody THEN B ELSE [B EXCEPT ![body].status = "deleted"]

NoResult == TimelineResult(FALSE, FALSE, <<>>, "none", FALSE, FALSE, FALSE, 0, EmptySel)

NoLast ==
    [handled |-> FALSE, parent |-> EmptySel, existingBody |-> NullBody,
     body |-> NullBody, oldTimeline |-> <<>>, oldBody |-> FreeBody,
     result |-> NoResult, returnedBody |-> NullBody]

\* The definition handled latest
LastEntry == catalog[pos - 1]

\* Faulty variant: the body is deleted even when it is the existing one
GiveUpDeleteAlways(existingBody, body, B2) ==
    /\ bodies' = [B2 EXCEPT ![body] = FreeBody]
    /\ UNCHANGED planets

\* Faulty variant: the body made for the definition is not deleted
GiveUpKeepAll(existingBody, body, B2) ==
    /\ bodies' = B2
    /\ UNCHANGED planets

\* CreatePlanet, "No valid timeline given; give up.": a body made for this
\* definition is deleted, an existing one is kept.  B2 are the bodies after
\* CreateTimeline.
GiveUp(existingBody, body, B2) ==
    /\ bodies' = IF body # existingBody THEN [B2 EXCEPT ![body] = FreeBody] ELSE B2
    /\ UNCHANGED planets

\* Faulty variant: the body that was replaced is not deleted
PlaceBodyKeepReplaced(e, parent, existingBody, body, B2) ==
    IF e.disposition = "ReplaceObject"
    THEN /\ bodies' = [B2 EXCEPT ![body].name = e.name]
         /\ planets' = [planets EXCEPT
                           ![parent] = ReplaceBody(planets[parent], existingBody, body)]
    ELSE IF e.disposition = "AddObject"
    THEN /\ bodies' = [B2 EXCEPT ![body].name = e.name]
         /\ planets' = [planets EXCEPT ![parent] = AddBody(planets[parent], body)]
    ELSE /\ bodies' = [B2 EXCEPT ![body].name = e.name]
         /\ UNCHANGED planets

\* LoadSolarSystemObjects, "if (body != NULL)": the body is named and, for
\* Replace and Add, put in the parent system.
PlaceBody(e, parent, existingBody, body, B2) ==
    IF e.disposition = "ReplaceObject"
    THEN /\ bodies' = DeleteBody([B2 EXCEPT ![body].name = e.name], existingBody)
         /\ planets' = [planets EXCEPT
                           ![parent] = ReplaceBody(planets[parent], existingBody, body)]
    ELSE IF e.disposition = "AddObject"
    THEN /\ bodies' = [B2 EXCEPT ![body].name = e.name]
         /\ planets' = [planets EXCEPT ![parent] = AddBody(planets[parent], body)]
    ELSE /\ bodies' = [B2 EXCEPT ![body].name = e.name]
         /\ UNCHANGED planets

\* Body::getOrCreateFrameTree(): the frame tree of the body, made at the
\* first call
GetOrCreateFrameTree(B, body) == [B EXCEPT ![body].frameTree = TRUE]

\* universe.getSolarSystem(star), and createSolarSystem(star) when the star
\* has none; a selection that is no star has no solar system
GetOrCreateSolarSystem(S, sel) == IF IsStar(sel) THEN S \cup {sel} ELSE S

\* The bodies after CreateTimeline has returned r: the frame tree of the
\* barycenter body exists, and the timeline is set if setTimeline was called
AfterCreateTimeline(B1, body, r) ==
    IF r.parentFrameTree \in BodyIds
    THEN GetOrCreateFrameTree(IF r.installed THEN SetTimeline(B1, body, r.timeline) ELSE B1,
                              r.parentFrameTree)
    ELSE IF r.installed THEN SetTimeline(B1, body, r.timeline) ELSE B1

\* CreatePlanet, "Radius": the semi-axes of a sphere of that radius
SetRadius(B, body, radiusValue) ==
    IF radiusValue.tag = "number" THEN [B EXCEPT ![body].semiAxes = radiusValue.value]
    ELSE B

\* CreatePlanet, "Class": the classification the name stands for, the one
\* the body has when the field is absent or the name unknown
ClassificationOf(classValue, classification) ==
    IF classValue.tag # "string" THEN classification
    ELSE IF classValue.value = "planet" THEN "Planet"
    ELSE IF classValue.value = "moon" THEN "Moon"
    ELSE IF classValue.value = "invisible" THEN "Invisible"
    ELSE classification

\* CreatePlanet, "Try to guess the type"
GuessClassification(classification, system, radius) ==
    IF classification # "Unknown" THEN classification
    ELSE IF PrimaryBody(system) # NullBody
    THEN IF radius * 10 > 1 THEN "Moon" ELSE "Spacecraft"
    ELSE IF radius < 1000 THEN "Asteroid" ELSE "Planet"

\* body->setClassification(classification) and the two calls that follow it
SetClassification(B, body, classification) ==
    [B EXCEPT ![body].classification = classification,
              ![body].visible = IF classification = "Invisible" THEN FALSE ELSE @,
              ![body].visibleAsPoint = IF classification = "Invisible" THEN FALSE ELSE @]

\* CreatePlanet after CreateTimeline has succeeded: the fields of the
\* definition that do not belong to the timeline; B has the radius set
ClassifiedBody(B, body, system, planetData) ==
    SetClassification(B, body,
        GuessClassification(ClassificationOf(planetData.Class, B[body].classification),
                            system, B[body].semiAxes))

PlanetFields(B, body, system, planetData) ==
    ClassifiedBody(SetRadius(B, body, planetData.Radius), body, system, planetData)

\* CreateReferencePoint before CreateTimeline is called: the body is an
\* invisible point
ReferencePointFields(B, body) ==
    [B EXCEPT ![body].semiAxes = 1, ![body].classification = "Invisible",
              ![body].visible = FALSE, ![body].visibleAsPoint = FALSE,
              ![body].clickable = FALSE]

\* What CreatePlanet, and CreateReferencePoint, do to the body once
\* CreateTimeline has succeeded
ItemFields(e, parent, body, B2) ==
    IF e.itemType = "ReferencePoint" THEN B2
    ELSE PlanetFields(B2, body, parent, e.data)

\* CreatePlanet and CreateReferencePoint once CreateTimeline has returned r
\* for the body, B1 the bodies CreateTimeline was called on.  A parent that
\* is a star has a solar system when the body is created (the loader makes
\* it), and so has the star whose frame tree CreateTimeline has fetched.
AfterTimeline(e, parent, existingBody, body, B1, r) ==
    /\ last' = [handled |-> TRUE, parent |-> parent, existingBody |-> existingBody,
                body |-> body,
                oldTimeline |-> IF existingBody # NullBody
                                THEN bodies[existingBody].timeline ELSE <<>>,
                oldBody |-> IF existingBody # NullBody
                            THEN bodies[existingBody] ELSE FreeBody,
                result |-> r,
                returnedBody |-> IF r.ok THEN body ELSE NullBody]
    /\ solarSystems' = GetOrCreateSolarSystem(GetOrCreateSolarSystem(solarSystems, parent),
                                              r.parentFrameTree)
    /\ IF ~r.ok
       THEN GiveUp(existingBody, body, AfterCreateTimeline(B1, body, r))
       ELSE PlaceBody(e, parent, existingBody, body,
                      ItemFields(e, parent, body, AfterCreateTimeline(B1, body, r)))

\* CreatePlanet with its body: the existing one for Modify, else a new one
WithBody(e, parent, existingBody, body, B1) ==
    /\ body # NullBody
    /\ AfterTimeline(e, parent, existingBody, body, B1,
                     CreateTimeline(B1, planets, body, parent, e.data, e.disposition))

\* static Body* CreatePlanet(name, system, universe, existingBody, planetData,
\*                           path, disposition)
CreatePlanet(e, parent, existingBody) ==
    IF e.disposition = "ModifyObject" /\ existingBody # NullBody
    THEN WithBody(e, parent, existingBody, existingBody, bodies)
    ELSE WithBody(e, parent, existingBody, Allocate(bodies),
                  [bodies EXCEPT ![Allocate(bodies)] = NewBody(parent)])

\* static Body* CreateReferencePoint(name, system, universe, existingBody,
\*                                   refPointData, path, disposition)
CreateReferencePoint(e, parent, existingBody) ==
    IF e.disposition = "ModifyObject" /\ existingBody # NullBody
    THEN WithBody(e, parent, existingBody, existingBody,
                  ReferencePointFields(bodies, existingBody))
    ELSE WithBody(e, parent, existingBody, Allocate(bodies),
                  ReferencePointFields([bodies EXCEPT ![Allocate(bodies)] = NewBody(parent)],
                                       Allocate(bodies)))

\* The definition e whose parent name resolved to parent
HandleDefinition(e, parent) ==
    IF parent = EmptySel
    THEN /\ last' = [NoLast EXCEPT !.handled = TRUE]
         /\ UNCHANGED <<bodies, planets, solarSystems>>
    ELSE IF e.itemType = "ReferencePoint"
    THEN CreateReferencePoint(e, parent, Find(bodies, planets[parent], e.name))
    ELSE CreatePlanet(e, parent, Find(bodies, planets[parent], e.name))

\* One turn of the loop of LoadSolarSystemObjects for a Body definition:
\* the parent is looked up, CreatePlanet builds the body and its timeline,
\* and the body is added to or replaced in the parent system.
LoadObject ==
    /\ ~returned
    /\ pos <= Len(catalog)
    /\ HandleDefinition(catalog[pos], FindPath(bodies, planets, catalog[pos].parent))
    /\ pos' = pos + 1
    /\ UNCHANGED <<catalog, returned, stars, measured>>

\* The end of the input: LoadSolarSystemObjects returns true.
Finish ==
    /\ ~returned
    /\ pos > Len(catalog)
    /\ returned' = TRUE
    /\ UNCHANGED <<catalog, pos, bodies, planets, last, stars, measured, solarSystems>>

Next == LoadObject \/ Finish

\* No nesting depth asked yet
NoMeasure ==
    [done |-> FALSE, center |-> EmptySel, frameType |-> "", maxDepth |-> 0,
     depth |-> 0, circular |-> FALSE]

\* The state before the first definition is handled: an empty universe with
\* its star, and the definitions of the catalog.
InitWith(catalogs) ==
    /\ catalog \in catalogs
    /\ pos = 1
    /\ bodies = [b \in BodyIds |-> FreeBody]
    /\ planets = [o \in {StarSel} \cup BodyIds |-> <<>>]
    /\ stars = [o \in {StarSel} \cup BodyIds |-> StarSel]
    /\ last = NoLast
    /\ returned = FALSE
    /\ measured = NoMeasure
    /\ solarSystems = {}

(***************************************************************************)
(* Catalogs.                                                               *)
(***************************************************************************)
NoFields ==
    [Timeline |-> TimelineAbsent, OrbitFrame |-> FrameAbsent, BodyFrame |-> FrameAbsent,
     Orbit |-> OrbitAbsent, Rotation |-> RotationAbsent,
     Beginning |-> DateAbsent, Ending |-> DateAbsent,
     Radius |-> NumberAbsent, Class |-> StringAbsent]

\* [disposition] [item type] "name" "parent name" { data }: the item type
\* is Body when none is given
Definition(disposition, name, parent, data) ==
    [disposition |-> disposition, itemType |-> "Body", name |-> name,
     parent |-> parent, data |-> data]

ReferencePoint(disposition, name, parent, data) ==
    [Definition(disposition, name, parent, data) EXCEPT !.itemType = "ReferencePoint"]

\* A phase of a Timeline array: a property group with an orbit
Phase(beginning, ending, orbitFrame, bodyFrame, orbit, rotation) ==
    [isHash |-> TRUE, Beginning |-> beginning, Ending |-> ending,
     OrbitFrame |-> orbitFrame, BodyFrame |-> bodyFrame,
     Orbit |-> orbit, Rotation |-> rotation]

PlainPhase(beginning, ending) ==
    Phase(beginning, ending, FrameAbsent, FrameAbsent, OrbitOf(1), RotationAbsent)

\* The arrays of at most MaxPhases elements of S
Arrays(S) == UNION {[1 .. n -> S] : n \in 0 .. MaxPhases}

\* Definitions of body "a" of the star with a Timeline array only
ArrayDefinition(disposition, phases) ==
    Definition(disposition, "a", StarName,
               [NoFields EXCEPT !.Timeline = TimelineArray(phases)])

\* Definitions that make body "a" before the definition under study:
\* a legacy one, a one-phase Timeline and a two-phase Timeline
SeedLegacy ==
    Definition("AddObject", "a", StarName, [NoFields EXCEPT !.Orbit = OrbitOf(1)])
SeedOnePhase ==
    ArrayDefinition("AddObject",
        <<Phase(Date(1), Date(2), FrameOn(StarName), FrameOn(StarName),
                OrbitOf(2), RotationGiven)>>)
SeedTwoPhases ==
    ArrayDefinition("AddObject", <<PlainPhase(DateAbsent, Date(1)),
                                   PlainPhase(DateAbsent, DateAbsent)>>)

\* Catalogs for the Timeline arrays: every array of phases with any
\* Beginning and Ending, under every disposition, alone or after a seed
DatedPhases == {PlainPhase(b, e) : b \in DateVals, e \in DateVals}

ArrayCatalogs ==
    LET defs == {ArrayDefinition(d, ps) : d \in Dispositions, ps \in Arrays(DatedPhases)}
    IN  {<<e>> : e \in defs} \cup {<<SeedLegacy, e>> : e \in defs}

\* Catalogs for the legacy definitions: every combination of the top-level
\* fields, and one-phase Timeline arrays with frames, alone or after a seed
FrameVals == {FrameAbsent, FrameBad, FrameOn(StarName), FrameOn("a")}
OrbitVals == {OrbitAbsent, OrbitOf(1), OrbitOf(2)}
RotationVals == {RotationAbsent, RotationGiven}

LegacyDefinitions ==
    {Definition(d, "a", StarName,
                [Timeline |-> TimelineAbsent, OrbitFrame |-> f, BodyFrame |-> g,
                 Orbit |-> o, Rotation |-> r, Beginning |-> b, Ending |-> e,
                 Radius |-> NumberAbsent, Class |-> StringAbsent]) :
        d \in Dispositions, f \in FrameVals, g \in FrameVals, o \in OrbitVals,
        r \in RotationVals, b \in DateVals, e \in DateVals}

FramedArrayDefinitions ==
    {ArrayDefinition(d, <<Phase(DateAbsent, DateAbsent, f, g, OrbitOf(1), RotationAbsent)>>) :
        d \in Dispositions, f \in FrameVals, g \in FrameVals}

Seeds == {SeedLegacy, SeedOnePhase, SeedTwoPhases}

LegacyCatalogs ==
    LET defs == LegacyDefinitions \cup FramedArrayDefinitions
    IN  {<<e>> : e \in defs} \cup {<<s, e>> : s \in Seeds, e \in defs}

\* Catalogs for the faults of a Timeline: a Timeline that is not an array,
\* and every array of elements each of which is sound or has one fault (it
\* is not a property group, a frame of it cannot be created, it has no
\* orbit), with or without Beginning and Ending
NotAHash ==
    [Phase(DateAbsent, DateAbsent, FrameAbsent, FrameAbsent, OrbitAbsent, RotationAbsent)
        EXCEPT !.isHash = FALSE]

FrameOrbitCases ==
    {<<FrameAbsent, FrameAbsent, OrbitOf(1)>>,
     <<FrameOn(StarName), FrameOn(StarName), OrbitOf(1)>>,
     <<FrameBad, FrameAbsent, OrbitOf(1)>>,
     <<FrameAbsent, FrameBad, OrbitOf(1)>>,
     <<FrameOn("b"), FrameAbsent, OrbitOf(1)>>,
     <<FrameAbsent, FrameAbsent, OrbitAbsent>>}

FaultyPhases ==
    {NotAHash, PlainPhase(Date(1), DateAbsent), PlainPhase(Date(1), Date(1))} \cup
    {Phase(DateAbsent, e, x[1], x[2], x[3], RotationAbsent) :
        e \in {DateAbsent, Date(1)}, x \in FrameOrbitCases}

NotArrayDefinition(disposition) ==
    Definition(disposition, "a", StarName,
               [NoFields EXCEPT !.Timeline = TimelineNotArray, !.Orbit = OrbitOf(1)])

PhaseCatalogs ==
    LET defs == {ArrayDefinition(d, ps) : d \in Dispositions, ps \in Arrays(FaultyPhases)}
                \cup {NotArrayDefinition(d) : d \in Dispositions}
    IN  {<<e>> : e \in defs} \cup {<<SeedLegacy, e>> : e \in defs}

(***************************************************************************)
(* Catalogs of up to three definitions of bodies and reference points: a   *)
(* seed that makes body "a", a definition of "a" with any disposition and  *)
(* item type (or a definition whose parent is unknown), and a definition   *)
(* that follows it; and a seed, a body with a frame centered on "a", and a *)
(* definition that replaces or modifies one of the two.                    *)
(***************************************************************************)
\* Timeline arrays: two sound phases; phases with and without a rotation
\* model and orbits of different periods; an array whose second phase has
\* no orbit
TwoPhases == <<PlainPhase(DateAbsent, Date(1)), PlainPhase(DateAbsent, DateAbsent)>>

RotationPhases ==
    <<Phase(DateAbsent, Date(1), FrameAbsent, FrameOn(StarName), OrbitOf(1), RotationBad),
      Phase(DateAbsent, Date(2), FrameOn(StarName), FrameAbsent, OrbitOf(2), RotationAbsent),
      Phase(DateAbsent, DateAbsent, FrameAbsent, FrameAbsent, OrbitOf(2), RotationGiven)>>

FailingPhases ==
    <<PlainPhase(DateAbsent, Date(1)),
      Phase(DateAbsent, DateAbsent, FrameAbsent, FrameAbsent, OrbitAbsent, RotationAbsent)>>

LoadArrays == {TwoPhases, RotationPhases, FailingPhases}

\* Top-level fields next to a Timeline array
WithTimeline(data, phases) == [data EXCEPT !.Timeline = TimelineArray(phases)]

OtherFields ==
    [NoFields EXCEPT !.OrbitFrame = FrameOn("a"), !.BodyFrame = FrameBad,
                     !.Orbit = OrbitOf(2), !.Rotation = RotationGiven,
                     !.Beginning = Date(1), !.Ending = Date(2)]

LoadData ==
    {NoFields,
     [NoFields EXCEPT !.Radius = Number(2)],
     [NoFields EXCEPT !.Class = String("moon")],
     [NoFields EXCEPT !.Orbit = OrbitOf(2)],
     [NoFields EXCEPT !.Orbit = OrbitOf(2), !.Radius = Number(2),
                      !.Class = String("invisible")],
     [NoFields EXCEPT !.OrbitFrame = FrameOn("a"), !.Orbit = OrbitOf(2)],
     [NoFields EXCEPT !.BodyFrame = FrameOn("a")],
     [NoFields EXCEPT !.OrbitFrame = FrameOn("a"), !.BodyFrame = FrameOn("a")],
     [NoFields EXCEPT !.Rotation = RotationGiven, !.Radius = Number(2)],
     [NoFields EXCEPT !.Orbit = OrbitOf(2), !.Ending = Date(2)],
     OtherFields,
     [NoFields EXCEPT !.Timeline = TimelineNotArray, !.Orbit = OrbitOf(2)]}
    \cup {WithTimeline(NoFields, ps) : ps \in LoadArrays}
    \cup {WithTimeline(OtherFields, ps) : ps \in LoadArrays}

LoadDefinitions ==
    {Definition(d, "a", StarName, data) : d \in Dispositions, data \in LoadData}
    \cup {ReferencePoint(d, "a", StarName, data) : d \in Dispositions, data \in LoadData}
    \cup {Definition(d, "c", nm, data) :
             d \in Dispositions, nm \in {"a", "x"},
             data \in {NoFields, [NoFields EXCEPT !.Orbit = OrbitOf(2)]}}

\* The definitions that follow: body "b" from each of the arrays, a body
\* in the system of "a", and changes of "a"
Followers ==
    {Definition("AddObject", "b", StarName, WithTimeline(NoFields, ps)) : ps \in LoadArrays}
    \cup {Definition("AddObject", "c", "a", WithTimeline(NoFields, TwoPhases)),
          Definition("ModifyObject", "a", StarName, [NoFields EXCEPT !.BodyFrame = FrameOn(StarName)]),
          Definition("ModifyObject", "a", StarName, [NoFields EXCEPT !.Rotation = RotationGiven]),
          Definition("ModifyObject", "a", StarName, [NoFields EXCEPT !.Radius = Number(3)])}

\* A seed of two phases with frames, orbits and rotation models of their own
SeedFramedPhases ==
    ArrayDefinition("AddObject",
        <<Phase(DateAbsent, Date(1), FrameOn(StarName), FrameOn(StarName),
                OrbitOf(1), RotationGiven),
          Phase(DateAbsent, Date(2), FrameOn(StarName), FrameOn(StarName),
                OrbitOf(1), RotationGiven)>>)

LoadSeeds == Seeds \cup {SeedFramedPhases}

\* Bodies that depend on body "a": a frame of theirs is centered on it,
\* either named by the definition or the default frame of their parent
Dependents ==
    {Definition("AddObject", "b", StarName,
                [NoFields EXCEPT !.OrbitFrame = FrameOn("a"), !.Orbit = OrbitOf(2)]),
     Definition("AddObject", "b", StarName,
                [NoFields EXCEPT !.BodyFrame = FrameOn("a"), !.Orbit = OrbitOf(2)]),
     Definition("AddObject", "c", "a", [NoFields EXCEPT !.Orbit = OrbitOf(2)]),
     Definition("AddObject", "b", StarName,
                WithTimeline(NoFields,
                    <<Phase(DateAbsent, Date(1), FrameOn("a"), FrameAbsent,
                            OrbitOf(1), RotationAbsent),
                      PlainPhase(DateAbsent, DateAbsent)>>))}

\* Definitions of a body that exists, after a body that depends on "a"
Successors ==
    {Definition("ReplaceObject", "a", StarName, [NoFields EXCEPT !.Orbit = OrbitOf(2)]),
     ReferencePoint("ReplaceObject", "a", StarName, [NoFields EXCEPT !.Orbit = OrbitOf(2)]),
     Definition("ReplaceObject", "a", StarName, NoFields),
     Definition("ModifyObject", "a", StarName, [NoFields EXCEPT !.Orbit = OrbitOf(2)]),
     Definition("ReplaceObject", "b", StarName, [NoFields EXCEPT !.Orbit = OrbitOf(2)])}

DependentCatalogs ==
    {<<SeedLegacy, d, r>> : d \in Dependents, r \in Successors}

LoadCatalogs ==
    {<<e>> : e \in LoadDefinitions}
    \cup {<<s, e>> : s \in LoadSeeds, e \in LoadDefinitions}
    \cup {<<e, f>> : e \in LoadDefinitions, f \in Followers}
    \cup {<<s, e, f>> : s \in LoadSeeds, e \in LoadDefinitions, f \in Followers}
    \cup DependentCatalogs

(***************************************************************************)
(* Creating a body in any planetary system of a universe with two stars.   *)
(* The universe has body "a" in the system of the star and its satellite   *)
(* "b", whose frames are centered on the star; the star each planetary     *)
(* system belongs to (PlanetarySystem::getStar()) is any of the two stars  *)
(* or NULL, so that a barycenter may be in another star system than the    *)
(* system the body is created in.                                          *)
(***************************************************************************)
Owners == {StarSel, OtherStar} \cup BodyIds

PlanetA ==
    [NewBody(StarSel) EXCEPT !.name = "a",
     !.timeline = <<NewTimelinePhase(NegInfinity, Infinity,
                       DefaultReferenceFrame(StarSel), CreateOrbit(OrbitOf(1), TRUE),
                       DefaultReferenceFrame(StarSel), CreateDefaultRotationModel(1))>>]

MoonB ==
    [NewBody(1) EXCEPT !.name = "b",
     !.timeline = <<NewTimelinePhase(NegInfinity, Infinity,
                       [kind |-> "created", center |-> StarSel], CreateOrbit(OrbitOf(1), TRUE),
                       [kind |-> "created", center |-> StarSel], CreateDefaultRotationModel(1))>>]

SystemFrameVals == {FrameAbsent, FrameOn(StarName), FrameOn("a")}

SystemData ==
    {[NoFields EXCEPT !.OrbitFrame = f, !.Orbit = o] :
        f \in SystemFrameVals, o \in {OrbitAbsent, OrbitOf(2)}}
    \cup
    {[NoFields EXCEPT !.Timeline = TimelineArray(
          <<Phase(DateAbsent, DateAbsent, f, FrameAbsent, OrbitOf(2), RotationAbsent)>>)] :
        f \in SystemFrameVals}
    \cup
    {[NoFields EXCEPT !.Timeline = TimelineArray(
          <<Phase(DateAbsent, Date(1), FrameAbsent, FrameOn(StarName), OrbitOf(2), RotationAbsent),
            Phase(DateAbsent, DateAbsent, FrameAbsent, FrameAbsent, OrbitOf(2), RotationAbsent)>>)]}

SystemDefinitions ==
    {Definition(d, nm, StarName, data) :
        d \in Dispositions, nm \in {"a", "b", "c"}, data \in SystemData}

StarsOfSystems ==
    {[o \in Owners |-> IF o \in {StarSel, OtherStar, 1, 2} THEN st[o] ELSE StarSel] :
        st \in [{StarSel, OtherStar, 1, 2} -> {StarSel, OtherStar, NullStar}]}

InitSystems ==
    /\ catalog \in {<<e>> : e \in SystemDefinitions}
    /\ pos = 1
    /\ bodies = [b \in BodyIds |-> IF b = 1 THEN PlanetA ELSE IF b = 2 THEN MoonB
                                   ELSE FreeBody]
    /\ planets = [o \in Owners |-> IF o = StarSel THEN <<1>> ELSE IF o = 1 THEN <<2>>
                                   ELSE <<>>]
    /\ stars \in StarsOfSystems
    /\ last = NoLast
    /\ returned = FALSE
    /\ measured = NoMeasure
    /\ solarSystems = {StarSel}

\* LoadSolarSystemObjects, "if (parentSystem != NULL)", with the planetary
\* system of any star or body of the universe as parentSystem
CreateInSystem ==
    /\ ~returned
    /\ pos <= Len(catalog)
    /\ \E parent \in {o \in Owners : IsStar(o) \/ bodies[o].status = "live"} :
          CreatePlanet(catalog[pos], parent, Find(bodies, planets[parent], catalog[pos].name))
    /\ pos' = pos + 1
    /\ UNCHANGED <<catalog, returned, stars, measured>>

NextSystems == CreateInSystem \/ Finish

SpecSystems == InitSystems /\ [][NextSystems]_vars

(***************************************************************************)
(* Specifications.                                                         *)
(***************************************************************************)
Init == InitWith(LegacyCatalogs)
Spec == Init /\ [][Next]_vars

InitArray == InitWith(ArrayCatalogs)
SpecArray == InitArray /\ [][Next]_vars

InitPhases == InitWith(PhaseCatalogs)
SpecPhases == InitPhases /\ [][Next]_vars

\* The loop of LoadSolarSystemObjects runs to its end: as long as the loader
\* has not returned, a turn of the loop or the return takes place.  Every
\* step of Next is such a step; the condition is stated on the position of
\* the loader alone.
Proceed ==
    /\ ~returned
    /\ \/ pos' = pos + 1 /\ returned' = returned
       \/ pos' = pos /\ returned' = TRUE

InitLoad == InitWith(LoadCatalogs)
SpecLoad == InitLoad /\ [][Next]_vars /\ WF_<<pos, returned>>(Proceed)

(***************************************************************************)
(* Nesting depth of frames, on universes made of one chain of frames:      *)
(* bodies 1 .. n, the frame (of one type) of body i centered on body       *)
(* i + 1, the frame of body n centered on the star (tail = StarSel) or on  *)
(* a body of the chain (a cycle); the frames of the other type are all     *)
(* centered on the star.                                                   *)
(***************************************************************************)
FrameTypes == {"PositionFrame", "OrientationFrame"}

ChainFrame(i, n, tail) == [kind |-> "created", center |-> IF i < n THEN i + 1 ELSE tail]

ChainBody(i, n, tail, frameType) ==
    [NewBody(StarSel) EXCEPT
     !.timeline = <<NewTimelinePhase(NegInfinity, Infinity,
                       IF frameType = "PositionFrame" THEN ChainFrame(i, n, tail)
                       ELSE DefaultReferenceFrame(StarSel),
                       CreateOrbit(OrbitOf(1), TRUE),
                       IF frameType = "OrientationFrame" THEN ChainFrame(i, n, tail)
                       ELSE DefaultReferenceFrame(StarSel),
                       ConstantOrientation)>>]

Chain(n, tail, frameType) ==
    [i \in 1 .. MaxChain |-> IF i <= n THEN ChainBody(i, n, tail, frameType) ELSE FreeBody]

Chains ==
    UNION {{Chain(n, tail, frameType) :
               tail \in (0 .. MaxTail) \cup {n}, frameType \in FrameTypes} :
           n \in 0 .. MaxChain}

InitDepth ==
    /\ catalog = <<>>
    /\ pos = 1
    /\ bodies \in {c \in Chains :
                     \A i \in DOMAIN c :
                        c[i].status = "live" =>
                           \A ft \in FrameTypes :
                              LET x == GetFrame(c, i, ft, 0).center
                              IN  x = StarSel \/ c[x].status = "live"}
    /\ planets = [o \in {StarSel} |-> <<>>]
    /\ stars = [o \in {StarSel} |-> StarSel]
    /\ last = NoLast
    /\ returned = FALSE
    /\ measured = NoMeasure
    /\ solarSystems = {StarSel}

\* frame.nestingDepth(maxDepth, frameType) and isFrameCircular(frame,
\* frameType) asked of a frame centered on the star or on a body
MeasureDepth ==
    /\ ~measured.done
    /\ \E center \in {StarSel} \cup {b \in DOMAIN bodies : bodies[b].status = "live"},
          frameType \in FrameTypes, maxDepth \in {SmallDepth, MaxFrameDepth} :
          measured' = [done |-> TRUE, center |-> center, frameType |-> frameType,
                       maxDepth |-> maxDepth,
                       depth |-> NestingDepth(bodies, [kind |-> "created", center |-> center],
                                              maxDepth, frameType),
                       circular |-> isFrameCircular(bodies,
                                       [kind |-> "created", center |-> center], frameType)]
    /\ UNCHANGED <<catalog, pos, bodies, planets, last, returned, stars, solarSystems>>

NextDepth == MeasureDepth

SpecDepth == InitDepth /\ [][NextDepth]_vars

(***************************************************************************)
(* What the claims speak of.                                               *)
(***************************************************************************)
\* The latest definition had a Timeline array / was a legacy definition
ArrayHandled ==
    last.handled /\ last.parent # EmptySel /\ LastEntry.data.Timeline.tag = "array"
LegacyHandled ==
    last.handled /\ last.parent # EmptySel /\ LastEntry.data.Timeline.tag = "absent"

LastArray == LastEntry.data.Timeline.phases
LastTimeline == last.result.timeline

\* Construction failed and nothing was installed: no setTimeline call, no
\* body returned, and the timeline of an existing body is what it was
NothingInstalled ==
    /\ ~last.result.ok
    /\ ~last.result.installed
    /\ last.returnedBody = NullBody
    /\ last.existingBody # NullBody =>
          /\ bodies[last.existingBody].status = "live"
          /\ bodies[last.existingBody].timeline = last.oldTimeline

\* The value a valid date field gives, else the default
DateOr(v, default) == IF v.tag = "date" THEN v.jd ELSE default

(***************************************************************************)
(* C1: the phases of every timeline built from an array are contiguous:    *)
(* the end of phase i is the start of phase i+1, also when a later phase   *)
(* carries a Beginning field of its own (which is then not a valid date).  *)
(***************************************************************************)
C1_Contiguous ==
    (ArrayHandled /\ last.result.ok) =>
        /\ Len(LastTimeline) = Len(LastArray)
        /\ \A i \in 1 .. Len(LastTimeline) - 1 :
              LastTimeline[i].end = LastTimeline[i + 1].start
        /\ last.returnedBody # NullBody
        /\ bodies[last.returnedBody].timeline = LastTimeline

C1_Witness ==
    /\ ArrayHandled /\ last.result.ok
    /\ Len(LastTimeline) = 2
    /\ LastTimeline[1].end = 2
    /\ LastTimeline[2].start = 2
    /\ LastArray[2].Beginning.tag = "invalid"

(***************************************************************************)
(* C2: in a timeline built from an array the first phase starts at         *)
(* -infinity unless the first phase has a valid Beginning (then there),    *)
(* and the last phase ends at +infinity unless the last phase has a valid  *)
(* Ending (then there).  Two phases, Ending 1 on the first and no bounds   *)
(* on the second, give [-infinity, 1) and [1, +infinity).                  *)
(***************************************************************************)
C2_Example == <<PlainPhase(DateAbsent, Date(1)), PlainPhase(DateAbsent, DateAbsent)>>

C2_OuterBounds ==
    (ArrayHandled /\ last.result.ok /\ Len(LastArray) > 0) =>
        /\ Len(LastTimeline) = Len(LastArray)
        /\ LastTimeline[1].start = DateOr(LastArray[1].Beginning, NegInfinity)
        /\ LastTimeline[Len(LastTimeline)].end
              = DateOr(LastArray[Len(LastArray)].Ending, Infinity)
        /\ LastArray = C2_Example =>
              /\ LastTimeline[1].start = NegInfinity /\ LastTimeline[1].end = 1
              /\ LastTimeline[2].start = 1 /\ LastTimeline[2].end = Infinity

C2_Witness ==
    /\ ArrayHandled /\ last.result.ok
    /\ LastArray = C2_Example
    /\ Len(LastTimeline) = 2
    /\ LastTimeline[1].start = NegInfinity
    /\ LastTimeline[2].end = Infinity

C4_EndingRequired ==
    /\ (ArrayHandled /\ \E i \in 1 .. Len(LastArray) - 1 : LastArray[i].Ending.tag = "absent")
          => NothingInstalled
    /\ ( /\ ArrayHandled
         /\ \A i \in 1 .. Len(LastArray) - 1 : LastArray[i].Ending.tag = "date"
         /\ \A i \in 2 .. Len(LastArray) : LastArray[i].Beginning.tag # "date" )
          => last.result.ok /\ last.result.installed

C4_Witness ==
    /\ ArrayHandled
    /\ LastEntry.disposition = "ModifyObject"
    /\ last.existingBody # NullBody
    /\ Len(last.oldTimeline) = 1
    /\ Len(LastArray) = 2
    /\ LastArray[1].Ending.tag = "absent"
    /\ LastArray[2].Beginning.tag = "absent"
    /\ NothingInstalled

(***************************************************************************)
(* C5: Modify of a body whose timeline has exactly one phase: whatever of  *)
(* orbit frame, body frame, orbit, rotation model, start and end the       *)
(* definition does not supply has, in the newly installed phase, the value *)
(* of the old phase; a definition with a rotation model only installs a    *)
(* one-phase timeline with the old orbit, frames and bounds.               *)
(***************************************************************************)
ModifyOnePhase ==
    /\ LegacyHandled
    /\ LastEntry.disposition = "ModifyObject"
    /\ last.existingBody # NullBody
    /\ Len(last.oldTimeline) = 1

OnlyRotation == [NoFields EXCEPT !.Rotation = RotationGiven]

C5_ModifyInherits ==
    /\ (ModifyOnePhase /\ last.result.installed) =>
          /\ Len(LastTimeline) = 1
          /\ bodies[last.existingBody].timeline = LastTimeline
          /\ LastEntry.data.OrbitFrame.tag = "absent" =>
                LastTimeline[1].orbitFrame = last.oldTimeline[1].orbitFrame
          /\ LastEntry.data.BodyFrame.tag = "absent" =>
                LastTimeline[1].bodyFrame = last.oldTimeline[1].bodyFrame
          /\ LastEntry.data.Orbit.tag = "absent" =>
                LastTimeline[1].orbit = last.oldTimeline[1].orbit
          /\ LastEntry.data.Rotation.tag = "absent" =>
                LastTimeline[1].rotationModel = last.oldTimeline[1].rotationModel
          /\ LastEntry.data.Beginning.tag = "absent" =>
                LastTimeline[1].start = last.oldTimeline[1].start
          /\ LastEntry.data.Ending.tag = "absent" =>
                LastTimeline[1].end = last.oldTimeline[1].end
    /\ (ModifyOnePhase /\ LastEntry.data = OnlyRotation) =>
          /\ last.result.ok /\ last.result.installed
          /\ LastTimeline[1].rotationModel.kind = "custom"

\* a rotation model only, on the phase [1, 2) with frames of its own
C5_Witness ==
    /\ ModifyOnePhase
    /\ LastEntry.data = OnlyRotation
    /\ last.result.installed
    /\ last.oldTimeline[1].start = 1 /\ last.oldTimeline[1].end = 2
    /\ last.oldTimeline[1].orbitFrame.kind = "created"
    /\ bodies[last.existingBody].timeline[1].end = 2
    /\ bodies[last.existingBody].timeline[1].orbitFrame.kind = "created"

(***************************************************************************)
(* C6: in legacy construction every timeline field the definition supplies *)
(* is in the installed phase; with a valid Beginning and a valid Ending    *)
(* the phase starts at that Beginning and ends at that Ending.             *)
(***************************************************************************)
C6_SuppliedFieldsInstalled ==
    (LegacyHandled /\ last.result.installed) =>
        /\ Len(LastTimeline) = 1
        /\ last.result.newOrbitFrame => LastTimeline[1].orbitFrame.kind = "created"
        /\ last.result.newBodyFrame => LastTimeline[1].bodyFrame.kind = "created"
        /\ LastEntry.data.Orbit.tag = "orbit" =>
              LastTimeline[1].orbit.period = LastEntry.data.Orbit.period
        /\ LastEntry.data.Rotation.tag = "given" =>
              LastTimeline[1].rotationModel.kind = "custom"
        /\ LastEntry.data.Beginning.tag = "date" =>
              LastTimeline[1].start = LastEntry.data.Beginning.jd
        /\ LastEntry.data.Ending.tag = "date" =>
              LastTimeline[1].end = LastEntry.data.Ending.jd

(***************************************************************************)
(* C7: a Modify without any timeline field, of a body whose timeline has   *)
(* more than one phase, leaves that timeline as it is: setTimeline is not  *)
(* called, the phases are those of before.                                 *)
(***************************************************************************)
ModifyNothingOfManyPhases ==
    /\ LegacyHandled
    /\ LastEntry.disposition = "ModifyObject"
    /\ last.existingBody # NullBody
    /\ Len(last.oldTimeline) > 1
    /\ LastEntry.data = NoFields

C7_TimelineUntouched ==
    ModifyNothingOfManyPhases =>
        /\ ~last.result.installed
        /\ bodies[last.existingBody].status = "live"
        /\ bodies[last.existingBody].timeline = last.oldTimeline
        /\ last.existingBody \in Range(planets[last.parent])

C7_Witness ==
    /\ ModifyNothingOfManyPhases
    /\ Len(bodies[last.existingBody].timeline) = 2
    /\ bodies[last.existingBody].timeline[1].end = 1
    /\ bodies[last.existingBody].timeline[2].start = 1

(***************************************************************************)
(* C8: as claimed, legacy construction installs a new timeline if and only *)
(* if a timeline field was overridden (C8_InstalledIffOverridden).  A      *)
(* definition that overrides a frame, a rotation model or a bound and has  *)
(* no orbit, new or inherited, returns false before the install decision   *)
(* and installs nothing.  Amended: in every legacy construction that       *)
(* reaches the install decision a timeline is installed if and only if a   *)
(* field was overridden, and for Add and Replace overrideOldTimeline is    *)
(* then true, so that the assertion holds and the timeline is installed    *)
(* (C8_DecisionIffOverridden).                                             *)
(***************************************************************************)
Overridden ==
    \/ last.result.newOrbitFrame
    \/ last.result.newBodyFrame
    \/ LastEntry.data.Orbit.tag = "orbit"
    \/ LastEntry.data.Rotation.tag = "given"
    \/ LastEntry.data.Beginning.tag = "date"
    \/ LastEntry.data.Ending.tag = "date"

C8_InstalledIffOverridden ==
    LegacyHandled => (last.result.installed <=> Overridden)

C8_DecisionIffOverridden ==
    (LegacyHandled /\ AssertionReached(last.result)) =>
        /\ last.result.installed <=> Overridden
        /\ last.result.overrideOldTimeline <=> Overridden
        /\ AssertionHolds(last.result, LastEntry.disposition)
        /\ LastEntry.disposition \in {"AddObject", "ReplaceObject"} =>
              last.result.installed

\* a Replace that reaches the decision with nothing but an orbit and an Ending
C8_Witness ==
    /\ LegacyHandled /\ AssertionReached(last.result)
    /\ LastEntry.disposition = "ReplaceObject"
    /\ last.existingBody # NullBody
    /\ LastEntry.data = [NoFields EXCEPT !.Orbit = OrbitOf(2), !.Ending = Date(1)]
    /\ last.result.installed
    /\ bodies[last.returnedBody].timeline = LastTimeline

(***************************************************************************)
(* C9: Add, no Timeline array, an OrbitFrame centered on the star and an   *)
(* orbit of period p, nothing else: one phase from -infinity to +infinity, *)
(* the orbit frame the one supplied, the body frame the default frame of   *)
(* the parent frame tree, the rotation the default synchronous one of      *)
(* period p.                                                               *)
(***************************************************************************)
C9_Entry(p) ==
    Definition("AddObject", "a", StarName,
               [NoFields EXCEPT !.OrbitFrame = FrameOn(StarName), !.Orbit = OrbitOf(p)])

C9_Timeline(p) ==
    <<[start |-> NegInfinity, end |-> Infinity,
       orbitFrame |-> [kind |-> "created", center |-> StarSel],
       bodyFrame |-> [kind |-> "default", center |-> StarSel],
       orbit |-> [kind |-> "orbit", period |-> p, planetUnits |-> TRUE],
       rotationModel |-> [kind |-> "sync", period |-> p]]>>

C9_AddWithOrbitFrame ==
    \A p \in {1, 2} :
        (last.handled /\ LastEntry = C9_Entry(p)) =>
            /\ last.result.ok /\ last.result.installed
            /\ LastTimeline = C9_Timeline(p)
            /\ last.returnedBody # NullBody
            /\ bodies[last.returnedBody].timeline = C9_Timeline(p)
            /\ last.returnedBody \in Range(planets[StarSel])

C9_Witness ==
    /\ last.handled /\ LastEntry = C9_Entry(2)
    /\ last.returnedBody # NullBody
    /\ Len(bodies[last.returnedBody].timeline) = 1
    /\ bodies[last.returnedBody].timeline[1].rotationModel.period = 2

(***************************************************************************)
(* C10: whenever a definition newly attaches to a timeline a frame (an     *)
(* OrbitFrame or BodyFrame at top level or in a phase of a Timeline array) *)
(* whose nesting depth exceeds MaxFrameDepth, CreateTimeline returns       *)
(* failure.                                                                *)
(***************************************************************************)
NewOrbitFrameAt(i) ==
    IF LastEntry.data.Timeline.tag = "array" THEN LastArray[i].OrbitFrame.tag = "frame"
    ELSE last.result.newOrbitFrame
NewBodyFrameAt(i) ==
    IF LastEntry.data.Timeline.tag = "array" THEN LastArray[i].BodyFrame.tag = "frame"
    ELSE last.result.newBodyFrame

NewFrameTooDeep ==
    \E i \in 1 .. Len(LastTimeline) :
        \/ /\ NewOrbitFrameAt(i)
           /\ isFrameCircular(bodies, LastTimeline[i].orbitFrame, "PositionFrame")
        \/ /\ NewBodyFrameAt(i)
           /\ isFrameCircular(bodies, LastTimeline[i].bodyFrame, "OrientationFrame")

C10_DeepFrameFails ==
    (last.handled /\ last.result.installed /\ NewFrameTooDeep) => ~last.result.ok

(***************************************************************************)
(* C11: whenever CreateTimeline returns false for a definition of a body   *)
(* that exists, whatever the cause (too deep a frame included), that body  *)
(* still has the timeline it had before: setTimeline has not replaced it.  *)
(***************************************************************************)
C11_FailureKeepsTimeline ==
    (last.handled /\ last.existingBody # NullBody /\ ~last.result.ok) =>
        /\ bodies[last.existingBody].status = "live"
        /\ bodies[last.existingBody].timeline = last.oldTimeline

(***************************************************************************)
(* C12: at every point of the load, no body that is in a planetary system  *)
(* has, in a phase of its timeline, an orbit frame or a body frame of      *)
(* nesting depth greater than MaxFrameDepth.                               *)
(***************************************************************************)
InSystem(b) == \E o \in DOMAIN planets : b \in Range(planets[o])

PhaseTooDeep(phase) ==
    \/ isFrameCircular(bodies, phase.orbitFrame, "PositionFrame")
    \/ isFrameCircular(bodies, phase.bodyFrame, "OrientationFrame")

C12_NoDeepFrameInSystem ==
    \A b \in BodyIds :
        (bodies[b].status = "live" /\ InSystem(b)) =>
            \A i \in 1 .. Len(bodies[b].timeline) : ~PhaseTooDeep(bodies[b].timeline[i])

(***************************************************************************)
(* C13: nestingDepth(max, frameType) of a frame on a chain without cycle,  *)
(* of depth d <= max, is d; of a frame whose chain has a cycle it is       *)
(* greater than max, wherever in the chain the frame is; isFrameCircular   *)
(* is true exactly for the chains deeper than MaxFrameDepth and the chains *)
(* with a cycle, and false for the chain of depth MaxFrameDepth.           *)
(***************************************************************************)
\* The chain the universe is made of, seen from the frame measured: its
\* number of bodies n, whether the frames of the measured type form the
\* chain, and whether the frame of its last body leads back into it
ChainLength == Cardinality({b \in DOMAIN bodies : bodies[b].status = "live"})
ChainNext(b) == GetFrame(bodies, b, measured.frameType, 0).center
IsChain(n) == n > 0 /\ ChainNext(1) # StarSel
HasCycle(n) == n > 0 /\ ChainNext(n) # StarSel
DepthOnChain(n) ==
    IF measured.center = StarSel THEN 0
    ELSE IF IsChain(n) THEN n - measured.center + 1
    ELSE 1
ChainDepth == DepthOnChain(ChainLength)
OnCycle == measured.center # StarSel /\ HasCycle(ChainLength)

DepthAsClaimed(d, cyclic) ==
    /\ (~cyclic /\ d <= measured.maxDepth) => measured.depth = d
    /\ cyclic => measured.depth > measured.maxDepth
    /\ measured.circular <=> (cyclic \/ d > MaxFrameDepth)
    /\ (~cyclic /\ d = MaxFrameDepth) => ~measured.circular

C13_NestingDepth == measured.done => DepthAsClaimed(ChainDepth, OnCycle)

\* the chain of depth MaxFrameDepth, measured with that maximum
C13_Witness ==
    /\ measured.done
    /\ ~OnCycle
    /\ ChainDepth = MaxFrameDepth
    /\ measured.maxDepth = MaxFrameDepth
    /\ measured.depth = MaxFrameDepth
    /\ ~measured.circular

(***************************************************************************)
(* C14: every timeline that setTimeline installs on a body has at least    *)
(* one phase, also when the Timeline field is an array without elements.   *)
(***************************************************************************)
C14_InstalledNonEmpty ==
    \A b \in BodyIds :
        (last.handled /\ last.result.installed /\ b = last.body) =>
            /\ Len(last.result.timeline) >= 1
            /\ bodies[b].status = "live" => Len(bodies[b].timeline) >= 1

(***************************************************************************)
(* C15: every phase of every timeline installed on a body starts before it *)
(* ends (start < end), be the timeline built from a Timeline array or the  *)
(* one phase of a legacy definition.                                       *)
(***************************************************************************)
C15_StartBeforeEnd ==
    (last.handled /\ last.result.installed) =>
        \A i \in 1 .. Len(bodies[last.body].timeline) :
            bodies[last.body].timeline[i].start < bodies[last.body].timeline[i].end

(***************************************************************************)
(* C16: when the Timeline field is not an array, or an element of the      *)
(* array is not a property group, or a phase fails (bad bounds, a frame    *)
(* that cannot be created, no orbit), CreateTimeline returns false,        *)
(* setTimeline is not called, and the phases built before the failing one  *)
(* are discarded: no timeline comes out, a new body is deleted, an         *)
(* existing body keeps its timeline.  An array without fault is installed  *)
(* whole.                                                                  *)
(***************************************************************************)
FrameFails(v) == v.tag = "bad" \/ (v.tag = "frame" /\ v.center # StarName)

PhaseAtFault(ps, i) ==
    \/ ~ps[i].isHash
    \/ i > 1 /\ ps[i].Beginning.tag = "date"
    \/ i < Len(ps) /\ ps[i].Ending.tag # "date"
    \/ FrameFails(ps[i].OrbitFrame)
    \/ FrameFails(ps[i].BodyFrame)
    \/ ps[i].Orbit.tag = "absent"

TimelineAtFault ==
    \/ LastEntry.data.Timeline.tag = "notarray"
    \/ /\ LastEntry.data.Timeline.tag = "array"
       /\ \E i \in 1 .. Len(LastArray) : PhaseAtFault(LastArray, i)

C16_FaultFailsWhole ==
    (last.handled /\ last.parent # EmptySel) =>
        /\ TimelineAtFault =>
              /\ NothingInstalled
              /\ last.result.timeline = <<>>
              /\ last.body # last.existingBody => bodies[last.body].status = "free"
        /\ (ArrayHandled /\ ~TimelineAtFault) =>
              /\ last.result.ok /\ last.result.installed
              /\ Len(LastTimeline) = Len(LastArray)

\* a Modify of an existing body: the first phase is sound, the second has
\* no orbit
C16_Witness ==
    /\ ArrayHandled
    /\ LastEntry.disposition = "ModifyObject"
    /\ last.existingBody # NullBody
    /\ Len(last.oldTimeline) = 1
    /\ Len(LastArray) = 2
    /\ ~PhaseAtFault(LastArray, 1)
    /\ LastArray[2].Orbit.tag = "absent"
    /\ NothingInstalled
    /\ bodies[last.existingBody].timeline = last.oldTimeline

(***************************************************************************)
(* C17: whenever a definition supplies an OrbitFrame or a BodyFrame for    *)
(* which CreateReferenceFrame fails, in a phase of a Timeline array or as  *)
(* a top-level field, timeline construction is aborted and no timeline is  *)
(* installed.                                                              *)
(***************************************************************************)
BadFrameInPhase ==
    /\ LastEntry.data.Timeline.tag = "array"
    /\ \E i \in 1 .. Len(LastArray) :
          LastArray[i].OrbitFrame.tag = "bad" \/ LastArray[i].BodyFrame.tag = "bad"

BadFrameAtTopLevel ==
    /\ LastEntry.data.Timeline.tag = "absent"
    /\ LastEntry.data.OrbitFrame.tag = "bad" \/ LastEntry.data.BodyFrame.tag = "bad"

C17_BadFrameAborts ==
    (last.handled /\ last.parent # EmptySel /\ (BadFrameInPhase \/ BadFrameAtTopLevel))
        => NothingInstalled

(***************************************************************************)
(* C18: on every failure return of timeline construction every reference   *)
(* to a frame that was taken during the attempt (a frame created, or the   *)
(* default frame retained) has been released: takes and releases balance,  *)
(* in CreateTimelinePhase and on the legacy path of CreateTimeline, e.g.   *)
(* when frames were created and then no valid orbit is found.              *)
(***************************************************************************)
C18_FramesReleasedOnFailure ==
    (last.handled /\ last.parent # EmptySel /\ ~last.result.ok) =>
        last.result.framesHeld = 0

(***************************************************************************)
(* C19: GetOrbitBarycenter gives the primary body of the system when it    *)
(* has one and else the star of the system; it gives the empty selection   *)
(* when that barycenter is not in the star system of the system (or when   *)
(* the system has neither), and then CreateTimeline returns false, has     *)
(* fetched no frame tree and has installed nothing.                        *)
(***************************************************************************)
ResolvedBarycenter(system) ==
    IF system \in BodyIds
    THEN IF stars[system] = stars[bodies[system].system] THEN system ELSE EmptySel
    ELSE stars[system]

C19_Barycenter ==
    (last.handled /\ last.parent # EmptySel) =>
        /\ last.result.parentFrameTree = ResolvedBarycenter(last.parent)
        /\ ResolvedBarycenter(last.parent) = EmptySel =>
              /\ last.result.path = "nobarycenter"
              /\ NothingInstalled
              /\ last.result.timeline = <<>>
              /\ last.result.framesHeld = 0
        /\ ResolvedBarycenter(last.parent) # EmptySel =>
              /\ last.result.path # "nobarycenter"
              /\ ( /\ last.result.installed
                   /\ LastEntry.data.Timeline.tag = "absent"
                   /\ LastEntry.disposition # "ModifyObject" ) =>
                    LastTimeline[1].bodyFrame
                       = DefaultReferenceFrame(ResolvedBarycenter(last.parent))

\* Modify of the satellite "b" in the system of "a", which is in another
\* star system than "a" itself
C19_Witness ==
    /\ last.handled
    /\ last.parent = 1
    /\ stars[1] = OtherStar
    /\ stars[bodies[1].system] = StarSel
    /\ LastEntry.disposition = "ModifyObject"
    /\ last.existingBody = 2
    /\ LastEntry.data.Orbit.tag = "orbit"
    /\ last.result.path = "nobarycenter"
    /\ bodies[2].timeline = last.oldTimeline

(***************************************************************************)
(* C20: on the Timeline array path and on the legacy path alike, an orbit  *)
(* that is created for a phase has planet units (AU) if and only if the    *)
(* center of the orbit frame of that phase, be the frame supplied,         *)
(* inherited or the default one, is a star; whether the barycenter of the  *)
(* object is a body or a star does not matter.                             *)
(***************************************************************************)
OrbitCreated ==
    LastEntry.data.Timeline.tag = "array" \/ LastEntry.data.Orbit.tag = "orbit"

C20_PlanetUnits ==
    (last.handled /\ last.result.installed /\ OrbitCreated) =>
        \A i \in 1 .. Len(LastTimeline) :
            /\ LastTimeline[i].orbit.period = 2
            /\ LastTimeline[i].orbit.planetUnits <=> IsStar(LastTimeline[i].orbitFrame.center)

\* Modify of the satellite "b" of "a" with a new orbit: the barycenter is
\* the body "a", the inherited orbit frame is centered on the star
C20_Witness ==
    /\ last.handled /\ last.result.installed
    /\ LastEntry.disposition = "ModifyObject"
    /\ last.existingBody = 2
    /\ LastEntry.data = [NoFields EXCEPT !.Orbit = OrbitOf(2)]
    /\ last.result.parentFrameTree = 1
    /\ LastTimeline[1].orbitFrame = last.oldTimeline[1].orbitFrame
    /\ IsStar(LastTimeline[1].orbitFrame.center)
    /\ bodies[2].timeline[1].orbit.planetUnits

(***************************************************************************)
(* C21: a definition that fails (its parent is unknown, or the             *)
(* construction of its timeline fails) is local: no body is added or       *)
(* replaced for it and no body made for it remains, so that the            *)
(* definitions that follow find the universe as if that body were absent   *)
(* (the bodies other than an existing body under Modify are as before; a   *)
(* frame tree fetched for the barycenter body is all that is left); the    *)
(* loader goes on with the next definition, handles every definition and   *)
(* returns true.                                                           *)
(***************************************************************************)
DefinitionFails == LoadObject /\ ~last'.result.ok

\* The body as it is but for its frame tree
SaveFrameTree(body, old) == [body EXCEPT !.frameTree = old.frameTree]

FailureIsLocal ==
    /\ planets' = planets
    /\ \A b \in BodyIds :
          /\ bodies'[b].status = bodies[b].status
          /\ (catalog[pos].disposition # "ModifyObject" \/ b # last'.existingBody)
                => SaveFrameTree(bodies'[b], bodies[b]) = bodies[b]
    /\ \A nm \in {StarName, "a", "b", "c", "x"} :
          FindPath(bodies', planets', nm) = FindPath(bodies, planets, nm)
    /\ pos' = pos + 1
    /\ ~returned'

NamesNoBody ==
    /\ FindPath(bodies, planets, catalog[pos].parent) # EmptySel
    /\ Find(bodies, planets[FindPath(bodies, planets, catalog[pos].parent)],
            catalog[pos].name) = NullBody

AsAdd(e) == [e EXCEPT !.disposition = "AddObject"]

C22_MissingIsAdd ==
    [][(LoadObject /\ NamesNoBody)
          => /\ HandleDefinition(AsAdd(catalog[pos]),
                                 FindPath(bodies, planets, catalog[pos].parent))
             /\ last'.result.ok => last'.returnedBody \in Range(planets'[last'.parent])]_vars

(***************************************************************************)
(* C23: a Modify with top-level timeline fields of a body whose timeline   *)
(* has more than one phase takes nothing from the old phases.  With an     *)
(* orbit in the definition the timeline is replaced by one phase: a frame  *)
(* that is not supplied is the default frame of the parent frame tree, a   *)
(* bound that is not supplied is -infinity (+infinity), a rotation model   *)
(* that is not supplied is the default synchronous one.  Without an orbit  *)
(* the construction fails and the body keeps its phases.                   *)
(***************************************************************************)
ModifyManyPhases ==
    /\ LegacyHandled
    /\ LastEntry.disposition = "ModifyObject"
    /\ last.existingBody # NullBody
    /\ Len(last.oldTimeline) > 1
    /\ LastEntry.data # [NoFields EXCEPT !.Radius = LastEntry.data.Radius,
                                         !.Class = LastEntry.data.Class]

\* The one phase that replaces the timeline
NewPhase == bodies[last.existingBody].timeline[1]

C23_ManyPhasesReplaced ==
    ModifyManyPhases =>
        IF LastEntry.data.Orbit.tag = "orbit"
        THEN /\ last.result.installed
             /\ Len(bodies[last.existingBody].timeline) = 1
             /\ NewPhase.orbit.period = LastEntry.data.Orbit.period
             /\ LastEntry.data.OrbitFrame.tag = "absent"
                   => NewPhase.orbitFrame = DefaultReferenceFrame(last.parent)
             /\ LastEntry.data.BodyFrame.tag = "absent"
                   => NewPhase.bodyFrame = DefaultReferenceFrame(last.parent)
             /\ LastEntry.data.Beginning.tag = "absent" => NewPhase.start = NegInfinity
             /\ LastEntry.data.Ending.tag = "absent" => NewPhase.end = Infinity
             /\ LastEntry.data.Rotation.tag = "absent"
                   => NewPhase.rotationModel
                        = CreateDefaultRotationModel(LastEntry.data.Orbit.period)
        ELSE /\ ~last.result.ok
             /\ ~last.result.installed
             /\ bodies[last.existingBody].status = "live"
             /\ bodies[last.existingBody].timeline = last.oldTimeline

\* The old phases had frames, bounds and rotation models of their own, and
\* the new phase has the defaults
C23_Witness ==
    /\ ModifyManyPhases
    /\ LastEntry.data = [NoFields EXCEPT !.Orbit = OrbitOf(2)]
    /\ last.oldTimeline[1].orbitFrame.kind = "created"
    /\ last.oldTimeline[1].rotationModel.kind = "custom"
    /\ last.oldTimeline[1].end = 1
    /\ NewPhase.orbitFrame.kind = "default"
    /\ NewPhase.rotationModel.kind = "sync"
    /\ NewPhase.end = Infinity

ReplacesExisting ==
    /\ LoadObject
    /\ catalog[pos].disposition = "ReplaceObject"
    /\ last'.existingBody # NullBody

\* The system after the step is the system before it with new for old
Replaced(old, new, before, after) ==
    /\ Len(after) = Len(before)
    /\ \E i \in 1 .. Len(before) : before[i] = old
    /\ \A i \in 1 .. Len(before) : after[i] = IF before[i] = old THEN new ELSE before[i]

C25_Replace ==
    [][ReplacesExisting =>
          /\ last'.body # last'.existingBody
          /\ bodies[last'.body].status = "free"
          /\ IF last'.result.ok
             THEN /\ Replaced(last'.existingBody, last'.body,
                              planets[last'.parent], planets'[last'.parent])
                  /\ \A o \in DOMAIN planets : o # last'.parent => planets'[o] = planets[o]
                  /\ bodies'[last'.existingBody].status = "deleted"
                  /\ bodies'[last'.body].status = "live"
                  /\ bodies'[last'.body].name = catalog[pos].name
                  /\ bodies'[last'.body].timeline = last'.result.timeline
             ELSE /\ planets' = planets
                  /\ bodies'[last'.existingBody] = bodies[last'.existingBody]
                  /\ bodies[last'.existingBody].status = "live"
                  /\ bodies'[last'.body].status = "free"]_vars

C25_Witness ==
    /\ last.handled /\ last.existingBody # NullBody
    /\ LastEntry.disposition = "ReplaceObject"
    /\ last.result.ok
    /\ bodies[last.existingBody].status = "deleted"
    /\ Find(bodies, planets[last.parent], LastEntry.name) = last.body
    /\ last.oldTimeline # bodies[last.body].timeline

(***************************************************************************)
(* C26: as claimed, in a legacy construction isFrameCircular is called     *)
(* only after a timeline was installed; it is called for the position      *)
(* frame if and only if an OrbitFrame was supplied and created, and for    *)
(* the orientation frame if and only if a BodyFrame was supplied and       *)
(* created (C26_ChecksIffSupplied).  The code returns as soon as the       *)
(* position frame is found circular, before the check of the orientation   *)
(* frame.  Amended: the position frame is checked if and only if the       *)
(* timeline was installed and an OrbitFrame was supplied and created; the  *)
(* orientation frame is checked if and only if the timeline was installed, *)
(* a BodyFrame was supplied and created, and the check of the position     *)
(* frame, if made, did not fail.  An installed timeline fails exactly when *)
(* a check that was made found its frame circular; with inherited and      *)
(* default frames only no check is made, and the construction succeeds     *)
(* even when an inherited frame is circular.                               *)
(***************************************************************************)
Checked(frameType) == frameType \in last.result.checked

OrbitFrameSupplied == last.result.newOrbitFrame /\ LastEntry.data.OrbitFrame.tag = "frame"
BodyFrameSupplied == last.result.newBodyFrame /\ LastEntry.data.BodyFrame.tag = "frame"

\* The frame of the body that CreateTimeline was called for is circular
CircularNow(frameType) ==
    isFrameCircular(SetTimeline(bodies, last.body, last.result.timeline),
                    GetFrame(SetTimeline(bodies, last.body, last.result.timeline),
                             last.body, frameType, 0),
                    frameType)

C26_ChecksIffSupplied ==
    LegacyHandled =>
        /\ last.result.checked # {} => last.result.installed
        /\ last.result.installed =>
              /\ Checked("PositionFrame") <=> OrbitFrameSupplied
              /\ Checked("OrientationFrame") <=> BodyFrameSupplied
        /\ (last.result.installed /\ ~OrbitFrameSupplied /\ ~BodyFrameSupplied)
              => last.result.ok

C26_ChecksOnNewFrames ==
    LegacyHandled =>
        /\ last.result.newOrbitFrame <=> LastEntry.data.OrbitFrame.tag = "frame"
                                          /\ last.result.framesHeld > 0
        /\ Checked("PositionFrame") <=> last.result.installed /\ OrbitFrameSupplied
        /\ Checked("OrientationFrame")
              <=> /\ last.result.installed /\ BodyFrameSupplied
                  /\ Checked("PositionFrame") => ~CircularNow("PositionFrame")
        /\ last.result.installed =>
              (~last.result.ok <=> \E ft \in last.result.checked : CircularNow(ft))
        /\ last.result.checked = {} => (last.result.ok \/ ~last.result.installed)

\* A Modify that supplies a body frame only installs a timeline whose
\* position frame, inherited, is circular: that frame is not checked
C26_Witness ==
    /\ LegacyHandled
    /\ last.result.installed /\ last.result.ok
    /\ last.result.checked = {"OrientationFrame"}
    /\ ~last.result.newOrbitFrame
    /\ CircularNow("PositionFrame")

(***************************************************************************)
(* C27: the default frame is the default reference frame of the parent     *)
(* frame tree.  When the barycenter is a body that is the frame tree of    *)
(* the body, which exists once CreateTimeline has fetched it; else it is   *)
(* the frame tree of the solar system of the star, which exists once       *)
(* CreateTimeline has fetched it.  Every frame that a phase of a Timeline  *)
(* array omits, and every frame that a legacy definition neither supplies  *)
(* nor inherits, is that one frame.  On the array path each slot of a      *)
(* phase holds one reference to its frame, the default frame included; on  *)
(* the legacy path only the frames created for the definition are held.    *)
(***************************************************************************)
\* The slots of the phases of an array that have no frame of their own
DefaultedSlots(ps) ==
    {<<i, "PositionFrame">> : i \in {j \in 1 .. Len(ps) : ps[j].OrbitFrame.tag = "absent"}}
    \cup
    {<<i, "OrientationFrame">> : i \in {j \in 1 .. Len(ps) : ps[j].BodyFrame.tag = "absent"}}

\* The frame in a slot of a timeline
SlotFrame(tl, slot) ==
    IF slot[2] = "PositionFrame" THEN tl[slot[1]].orbitFrame ELSE tl[slot[1]].bodyFrame

\* The definition handled in this step takes nothing from an old phase
InheritsNothing ==
    \/ catalog[pos].disposition # "ModifyObject"
    \/ last'.existingBody = NullBody
    \/ Len(last'.oldTimeline) # 1

FrameTreeFetched(bc) ==
    /\ bc = ResolvedBarycenter(last'.parent)
    /\ bc \in BodyIds => bodies'[bc].frameTree
    /\ IsStar(bc) => bc \in solarSystems'
    /\ \A b \in BodyIds : b # bc => bodies'[b].frameTree = bodies[b].frameTree
    /\ \A st \in solarSystems' : st \in solarSystems \/ st = bc \/ st = last'.parent

ArrayDefaults(r, ps, bc) ==
    /\ \A slot \in DefaultedSlots(ps) : SlotFrame(r.timeline, slot) = DefaultReferenceFrame(bc)
    /\ r.framesHeld = 2 * Len(ps)
    /\ r.framesHeld - Cardinality(DefaultedSlots(ps))
          = Cardinality({slot \in (1 .. Len(ps)) \X FrameTypes :
                           SlotFrame(r.timeline, slot).kind = "created"})

LegacyDefaults(r, data, bc) ==
    /\ data.OrbitFrame.tag = "absent" => r.timeline[1].orbitFrame = DefaultReferenceFrame(bc)
    /\ data.BodyFrame.tag = "absent" => r.timeline[1].bodyFrame = DefaultReferenceFrame(bc)
    /\ r.framesHeld = Cardinality({ft \in FrameTypes :
                           SlotFrame(r.timeline, <<1, ft>>).kind = "created"})

C27_DefaultFrame ==
    [][CreateInSystem =>
          /\ FrameTreeFetched(last'.result.parentFrameTree)
          /\ (last'.result.path = "array" /\ last'.result.ok)
                => ArrayDefaults(last'.result, catalog[pos].data.Timeline.phases,
                                 last'.result.parentFrameTree)
          /\ (last'.result.path = "legacy" /\ last'.result.installed /\ InheritsNothing)
                => LegacyDefaults(last'.result, catalog[pos].data,
                                  last'.result.parentFrameTree)]_vars

\* A body of two phases made in the system of "a": three slots have the
\* default frame of the frame tree of "a", made for it
C27_Witness ==
    /\ last.handled /\ last.result.ok
    /\ last.parent = 1
    /\ last.result.parentFrameTree = 1
    /\ bodies[1].frameTree
    /\ Len(LastArray) = 2
    /\ Cardinality(DefaultedSlots(LastArray)) = 3
    /\ LastTimeline[1].orbitFrame = DefaultReferenceFrame(1)
    /\ LastTimeline[2].orbitFrame = LastTimeline[1].orbitFrame
    /\ LastTimeline[2].bodyFrame = LastTimeline[1].orbitFrame
    /\ last.result.framesHeld = 4

(***************************************************************************)
(* C28: as claimed, a Modify definition of either item type whose          *)
(* timeline cannot be constructed leaves the existing body in its parent   *)
(* system, alive, with every field (timeline, semi-axes, classification,   *)
(* visibility, clickability) as it was before the definition.              *)
(***************************************************************************)
ModifyFailed ==
    /\ last.handled /\ last.parent # EmptySel
    /\ LastEntry.disposition = "ModifyObject"
    /\ last.existingBody # NullBody
    /\ ~last.result.ok

C28_FailedModifyKeepsFields ==
    ModifyFailed =>
        /\ bodies[last.existingBody].status = "live"
        /\ last.existingBody \in Range(planets[last.parent])
        /\ bodies[last.existingBody] = last.oldBody

(***************************************************************************)
(* C29: as claimed, a Modify that supplies only fields that do not belong  *)
(* to the timeline (Radius, Class) for a body whose timeline has more than *)
(* one phase is no failure: CreateTimeline returns true and installs       *)
(* nothing, and CreatePlanet applies the fields to the body.               *)
(***************************************************************************)
\* The latest definition was a Modify of an existing body of several
\* phases that has Radius or Class and no field of the timeline
FieldsOnlyModify ==
    /\ LegacyHandled
    /\ LastEntry.itemType = "Body"
    /\ LastEntry.disposition = "ModifyObject"
    /\ last.existingBody # NullBody
    /\ Len(last.oldTimeline) > 1
    /\ LastEntry.data = [NoFields EXCEPT !.Radius = LastEntry.data.Radius,
                                         !.Class = LastEntry.data.Class]
    /\ LastEntry.data # NoFields

FieldsApplied ==
    /\ last.result.ok
    /\ ~last.result.installed
    /\ bodies[last.existingBody].timeline = last.oldTimeline
    /\ LastEntry.data.Radius.tag = "number"
          => bodies[last.existingBody].semiAxes = LastEntry.data.Radius.value
    /\ LastEntry.data.Class = String("moon")
          => bodies[last.existingBody].classification = "Moon"

C29_FieldsOnlyModifySucceeds == FieldsOnlyModify => FieldsApplied

(***************************************************************************)
(* C30: for a definition with a Timeline array the outcome of              *)
(* CreateTimeline is that of the array alone: it is what an Add of a       *)
(* definition with the same array and no other field gives in the same     *)
(* universe, whatever the top-level OrbitFrame, BodyFrame, orbit, rotation *)
(* model, Beginning and Ending of the definition and whatever its          *)
(* disposition.  A successful array under Modify replaces the whole        *)
(* timeline of the existing body, of one phase or of several: the new      *)
(* timeline has the phases of the array and nothing of the old one.        *)
(***************************************************************************)
HasTimelineArray ==
    /\ LoadObject
    /\ last'.parent # EmptySel
    /\ catalog[pos].data.Timeline.tag = "array"

\* What the array alone gives under Add, in the universe of this step
ArrayAlone ==
    CreateTimeline(bodies, planets, last'.body, last'.parent,
                   WithTimeline(NoFields, catalog[pos].data.Timeline.phases), "AddObject")

C30_ArrayAlone ==
    [][HasTimelineArray =>
          /\ last'.result = ArrayAlone
          /\ last'.result.installed = last'.result.ok
          /\ last'.result.ok =>
                /\ bodies'[last'.body].timeline = ArrayAlone.timeline
                /\ Len(bodies'[last'.body].timeline) = Len(catalog[pos].data.Timeline.phases)
          /\ (~last'.result.ok /\ last'.existingBody # NullBody) =>
                bodies'[last'.existingBody].timeline = last'.oldTimeline]_vars

\* A Modify of a body of two phases with frames of their own by an array
\* of three phases next to top-level fields
C30_Witness ==
    /\ ArrayHandled /\ last.result.ok
    /\ LastEntry.disposition = "ModifyObject"
    /\ last.existingBody # NullBody /\ last.body = last.existingBody
    /\ Len(last.oldTimeline) = 2
    /\ last.oldTimeline[1].bodyFrame.kind = "created"
    /\ LastEntry.data = WithTimeline(OtherFields, RotationPhases)
    /\ Len(bodies[last.existingBody].timeline) = 3
    /\ bodies[last.existingBody].timeline[3].bodyFrame.kind = "default"
    /\ bodies[last.existingBody].timeline[3].end = Infinity

(***************************************************************************)
(* C31: the centers of the frames of installed timelines.                  *)
(***************************************************************************)
\* The bodies on which a frame held by a phase of the timeline of body b is
\* centered
CentersOf(b) ==
    {c \in BodyIds : \E i \in 1 .. Len(bodies[b].timeline) :
        \/ bodies[b].timeline[i].orbitFrame.center = c
        \/ bodies[b].timeline[i].bodyFrame.center = c}

\* C31: after any sequence of definitions, every body that is the center
\* of a frame held by a phase of the timeline installed on a body still
\* exists: no Replace deletes a body while a frame of the timeline of
\* another body is centered on it.
C31_CentersExist ==
    \A b \in BodyIds :
        bodies[b].status = "live" =>
            \A c \in CentersOf(b) : bodies[c].status = "live"
====
